---------------------------- MODULE Spec2Model ----------------------------
(***************************************************************************)
(* Model of the team-planning timeline scripts (src/Code.js and its        *)
(* variants in src/unnamed/part_000): the interval packer, the colour      *)
(* assigner, the day-column index and the timeline builds.                 *)
(*                                                                         *)
(* A Date is modelled by its local calendar day, an integer: every Date of *)
(* the program is set to local midnight (setHours(0,0,0,0), or built by    *)
(* new Date(y, m, d)), and the program compares Dates by their time value. *)
(***************************************************************************)
EXTENDS Integers, Sequences, FiniteSets, TLC

VARIABLES
    personProjects,   \* the list handed to a packer (one person's projects, or customerData)
    packedRows,       \* packedRows / packedCustomerRows: the rows the packer built
    packedBy,         \* which copy of the packer ran: "none", "person" or "customer"
    colorMemory,      \* per build: [colors |-> projectColors (a Map), index |-> colorIndex]
    lastCall,         \* the last getProjectColor call: its build, identifier and result
    firstColor,       \* per build: what the first call for each identifier returned
    order,            \* per build: the identifiers in the order of their first request
    tz,               \* the script's time zone: -1 west of UTC, 0 UTC, 1 east of UTC
    headerArgs,       \* generateTimelineHeaders' arguments, and the variant called
    headerInfo,       \* what generateTimelineHeaders returned (built = FALSE before the call)
    headerRows,       \* the merged ranges generateTimelineHeaders left in rows 1 and 2
    sheetPeople,      \* data rows of the "People" sheet: person, key, startDate, endDate
    sheetProjects,    \* data rows of the "Projects" sheet: key, epicName, startDate, dueDate
    sheetCustomers,   \* data rows of the "Customers" sheet: name, startDate, endDate
    today,            \* new Date() of the run
    gantt             \* per build: the timeline sheet it wrote (built = FALSE before)

packVars == <<personProjects, packedRows, packedBy>>
colorVars == <<colorMemory, lastCall, firstColor, order>>

indexVars == <<tz, headerArgs, headerInfo, headerRows>>

sheetVars == <<sheetPeople, sheetProjects, sheetCustomers, today>>

vars == <<packVars, colorVars, indexVars, sheetVars, gantt>>

---------------------------------------------------------------------------
(* Bounds of the packer's inputs. *)
MaxIntervals == 3
MaxStart == 4
MaxSpan == 2
(* Bound of the colour assigner's inputs: the identifiers of one build. *)
MaxIds == 21
(* Bound of the index's inputs: the days the overall dates are drawn from. *)
MaxWindow == 10
MaxRows == 2
MaxSamples == 3
MaxInputRows == 2

\* Body applied to the value of an expression that is evaluated once.
With(value, Body(_)) == CHOOSE result \in { Body(v) : v \in {value} } : TRUE

---------------------------------------------------------------------------
(* The packer: populateCustomerRows (customers, milestones) and the        *)
(* per-person loop of updatePeopleTimeline hold the same code twice.       *)

\* The inner test of both packers.
OverlapsTouching(a, b) ==
    a.startDate < b.endDate /\ a.endDate > b.startDate

OverlapsAdjacent(a, b) ==
    a.startDate <= b.endDate + 1 /\ a.endDate + 1 >= b.startDate

Overlaps(a, b) ==
    a.startDate <= b.endDate /\ a.endDate >= b.startDate

\* Array.prototype.sort with (a, b) => a.startDate - b.startDate: a stable
\* sort, so equal starts keep their input order.  Insertion from the left.
RECURSIVE InsertBeforeEqual(_, _)
InsertBeforeEqual(sorted, x) ==
    IF sorted = << >> THEN <<x>>
    ELSE IF Head(sorted).startDate < x.startDate
         THEN <<Head(sorted)>> \o InsertBeforeEqual(Tail(sorted), x)
         ELSE <<x>> \o sorted

RECURSIVE InsertByStart(_, _)
InsertByStart(sorted, x) ==
    IF sorted = << >> THEN <<x>>
    ELSE IF Head(sorted).startDate <= x.startDate
         THEN <<Head(sorted)>> \o InsertByStart(Tail(sorted), x)
         ELSE <<x>> \o sorted

RECURSIVE SortByStart(_)
SortByStart(list) ==
    IF list = << >> THEN << >>
    ELSE InsertByStart(SortByStart(SubSeq(list, 1, Len(list) - 1)), list[Len(list)])

\* canPlaceInRow: no member of the row overlaps the new interval.
CanPlaceInRow(row, x) ==
    \A j \in 1..Len(row) : ~Overlaps(x, row[j])

PlaceInEveryRow(rows, x) ==
    IF \E i \in 1..Len(rows) : CanPlaceInRow(rows[i], x)
    THEN [i \in 1..Len(rows) |->
            IF CanPlaceInRow(rows[i], x) THEN Append(rows[i], x) ELSE rows[i]]
    ELSE Append(rows, <<x>>)

FirstRowOnly(rows, x) ==
    IF rows = << >> THEN << <<x>> >> ELSE [rows EXCEPT ![1] = Append(rows[1], x)]

\* One pass of the forEach body: the first row that can take x, else a new row.
PlaceInRows(rows, x) ==
    IF \E i \in 1..Len(rows) : CanPlaceInRow(rows[i], x)
    THEN LET i == CHOOSE k \in 1..Len(rows) :
                      /\ CanPlaceInRow(rows[k], x)
                      /\ \A m \in 1..(k - 1) : ~CanPlaceInRow(rows[m], x)
         IN  [rows EXCEPT ![i] = Append(rows[i], x)]
    ELSE Append(rows, <<x>>)

RECURSIVE PlaceAll(_, _)
PlaceAll(rows, list) ==
    IF list = << >> THEN rows
    ELSE PlaceAll(PlaceInRows(rows, Head(list)), Tail(list))

UnsortedPackRows(list) == PlaceAll(<< >>, list)

\* sort, then first fit.
PackRows(list) == PlaceAll(<< >>, SortByStart(list))

---------------------------------------------------------------------------
(* The colour assigner: getProjectColor and the closure it lives in, once  *)
(* in updatePeopleTimeline and once in updateProjectTimelines.             *)

availableColors ==
    << "#ADD8E6", "#90EE90", "#FFDAB9", "#B0E0E6", "#DDA0DD", "#F0E68C",
       "#87CEEB", "#F5DEB3", "#C0C0C0", "#FFA07A", "#20B2AA", "#E6E6FA",
       "#FFB6C1", "#AFEEEE", "#F08080", "#DA70D6", "#FFEFD5", "#FFE4B5", "#7FFFD4" >>

Builds == {"people", "projects"}

\* const projectColors = new Map(); let colorIndex = 0;
EmptyMemory == [colors |-> << >>, index |-> 0]

\* availableColors[colorIndex % availableColors.length] (JavaScript arrays start at 0).
PaletteColor(index) == availableColors[(index % Len(availableColors)) + 1]

ForgetfulSetColor(mem, id) ==
    [colors |-> [k \in (DOMAIN mem.colors) \cup {id} |-> IF k = id THEN PaletteColor(mem.index)
                                                      ELSE mem.colors[k]],
     index |-> mem.index + 1]

CountingSetColor(mem, id) ==
    IF id \in DOMAIN mem.colors
    THEN [mem EXCEPT !.index = mem.index + 1]
    ELSE [colors |-> [k \in (DOMAIN mem.colors) \cup {id} |-> IF k = id THEN PaletteColor(mem.index)
                                                          ELSE mem.colors[k]],
          index |-> mem.index + 1]

\* The body of getProjectColor up to its return: the memory after the call.
SetColor(mem, id) ==
    IF id \in DOMAIN mem.colors
    THEN mem
    ELSE [colors |-> [k \in (DOMAIN mem.colors) \cup {id} |-> IF k = id THEN PaletteColor(mem.index)
                                                          ELSE mem.colors[k]],
          index |-> mem.index + 1]

SharedScope(b) == "people"

\* projectColors and colorIndex are locals of the build that declares them:
\* getProjectColor of build b reads and writes the memory of build b.
ColorScope(b) == b

---------------------------------------------------------------------------
(* Dates.  A Date at local midnight is the number of its day, counted from *)
(* 2024-11-01 (day 0, a Friday).  The calendar covers 2024-11 .. 2026-10.  *)

DaysInMonth == << 30, 31, 31, 28, 31, 30, 31, 30, 31, 31, 30, 31, 30, 31, 31, 28, 31,
                 30, 31, 30, 31, 31, 30, 31 >>

RECURSIVE DaysBefore(_)
DaysBefore(m) == IF m = 0 THEN 0 ELSE DaysBefore(m - 1) + DaysInMonth[m]

\* MonthStarts[m]: the day number of the first day of month m (0 = 2024-11).
MonthStarts == [m \in 0..Len(DaysInMonth) |-> DaysBefore(m)]

MonthOf(d) == CHOOSE m \in 0..(Len(DaysInMonth) - 1) : MonthStarts[m] <= d /\ d < MonthStarts[m + 1]

\* new Date(year, month, day): month from 0, day may lie outside the month.
NewDate(year, month, day) == MonthStarts[(year - 2024) * 12 + month - 10] + day - 1

getFullYear(d) == 2024 + ((MonthOf(d) + 10) \div 12)
getMonth(d) == (MonthOf(d) + 10) % 12
getDate(d) == d - MonthStarts[MonthOf(d)] + 1
\* 0 for Sunday .. 6 for Saturday.
getDay(d) == (d + 5) % 7

\* date.setDate(n): day n of the date's own month, overflowing into its neighbours.
setDate(d, n) == NewDate(getFullYear(d), getMonth(d), n)

\* date.toISOString().slice(0, 10) of a Date at local midnight: the UTC day,
\* which is the day before when the zone is east of UTC.  The key stands for
\* the "YYYY-MM-DD" string; strings of this form sort as their days do.
toISODay(d, zone) == IF zone > 0 THEN d - 1 ELSE d

TimeZones == {-1, 0, 1}

\* A Date whose time value is NaN.
InvalidDate == -1

\* !isNaN(date.getTime())
IsValid(d) == d # InvalidDate

\* new Date(8640000000000000) and new Date(-8640000000000000), in days.
DistantFuture == 100000000
DistantPast == -100000000

---------------------------------------------------------------------------
(* generateTimelineHeaders: the day-column index.  includeWeekends is      *)
(* FALSE for src/Code.js (work week) and TRUE for the variants of          *)
(* src/unnamed/part_000 (full week).                                       *)

SameDay(date) == date

MondayAfterSunday(date) ==
    NewDate(getFullYear(date), getMonth(date), getDate(date) - getDay(date) + 1)

getStartOfWeek(date) ==
    LET day == getDay(date)
        diff == getDate(date) - day + (IF day = 0 THEN -6 ELSE 1)
    IN  NewDate(getFullYear(date), getMonth(date), diff)

getEndOfWeek(date, includeWeekends) ==
    LET startOfWeek == getStartOfWeek(date)
    IN  setDate(startOfWeek, getDate(startOfWeek) + (IF includeWeekends THEN 6 ELSE 4))

\* Whether the loop body maps the day: Monday to Friday, or every day.
HasColumn(dayOfWeek, includeWeekends) ==
    includeWeekends \/ (dayOfWeek >= 1 /\ dayOfWeek <= 5)

EveryDayNextColumn(col, dayOfWeek, includeWeekends) == col + 1

\* currentSheetColIndex after the loop body.
NextColumn(col, dayOfWeek, includeWeekends) ==
    IF HasColumn(dayOfWeek, includeWeekends) THEN col + 1 ELSE col

\* The while loop: the (key, column) pairs set, in order, and the final
\* currentSheetColIndex.
RECURSIVE WalkDays(_, _, _, _, _, _)
WalkDays(currentDate, lastChartDate, col, includeWeekends, zone, acc) ==
    IF ~IsValid(lastChartDate) \/ currentDate > lastChartDate THEN [pairs |-> acc, col |-> col]
    ELSE WalkDays(setDate(currentDate, getDate(currentDate) + 1), lastChartDate,
                  NextColumn(col, getDay(currentDate), includeWeekends),
                  includeWeekends, zone,
                  IF HasColumn(getDay(currentDate), includeWeekends)
                  THEN Append(acc, [key |-> toISODay(currentDate, zone), col |-> col,
                                    date |-> currentDate])
                  ELSE acc)

\* A Map built by set() calls in order: the last value set for a key stays.
MapOf(pairs) ==
    [k \in { pairs[i].key : i \in 1..Len(pairs) } |->
        LET last == CHOOSE i \in 1..Len(pairs) :
                        pairs[i].key = k /\ \A j \in (i + 1)..Len(pairs) : pairs[j].key # k
        IN  pairs[last].col]

generateTimelineHeaders(minOverallDate, maxOverallDate, firstFixedColumnIndex, includeWeekends, zone) ==
    LET firstChartDate == getStartOfWeek(minOverallDate)
        \* setDate on the earliest Date there is leaves the range: Invalid Date
        lastChartDate == IF maxOverallDate = DistantPast THEN InvalidDate
                         ELSE getEndOfWeek(maxOverallDate, includeWeekends)
        Headers(walk) ==
            LET totalDataColumns == walk.col - (firstFixedColumnIndex + 1)
            IN  [built |-> TRUE,
                 dailyDateToSheetColMap |-> MapOf(walk.pairs),
                 totalDataColumns |-> totalDataColumns,
                 totalHeaderColumns |-> firstFixedColumnIndex + totalDataColumns,
                 firstChartDate |-> firstChartDate,
                 lastChartDate |-> lastChartDate]
    IN  With(WalkDays(firstChartDate, lastChartDate, firstFixedColumnIndex + 1,
                      includeWeekends, zone, << >>), Headers)

NoHeaderInfo ==
    [built |-> FALSE, dailyDateToSheetColMap |-> << >>, totalDataColumns |-> 0,
     totalHeaderColumns |-> 0, firstChartDate |-> 0, lastChartDate |-> 0]

---------------------------------------------------------------------------
(* generateTimelineHeaders: the term row.  A term is resolved for the Date *)
(* that new Date(dateIso) makes of a key of the index.                     *)

\* JavaScript's null.
Null == [null |-> TRUE]

\* new Date("YYYY-MM-DD") is UTC midnight of that day; the local day it
\* falls on, which getMonth() reads and setHours(0, 0, 0, 0) keeps, is the
\* day before when the zone is west of UTC.
ParseISODay(key, zone) == IF zone < 0 THEN key - 1 ELSE key

Variants == { "Code.js", "part_000:1", "part_000:734" }

\* src/Code.js: the terms by their months, counted from 1.
TERMS ==
    << [name |-> "T1", startMonth |-> 2, endMonth |-> 4, color |-> "#2f75b5"],
       [name |-> "T2", startMonth |-> 5, endMonth |-> 7, color |-> "#4a4e69"],
       [name |-> "T3", startMonth |-> 8, endMonth |-> 10, color |-> "#3a6b35"],
       [name |-> "T4", startMonth |-> 11, endMonth |-> 1, color |-> "#8b0000"] >>

\* Whether the loop body reaches its test for the term (no continue), and
\* the years it gives the term's start and end.
TermYears(term, month, year) ==
    IF term.name = "T4"
    THEN IF month = 10 \/ month = 11
         THEN [tested |-> TRUE, termYearStart |-> year, termYearEnd |-> year + 1]
         ELSE IF month = 0
              THEN [tested |-> TRUE, termYearStart |-> year - 1, termYearEnd |-> year]
              ELSE [tested |-> FALSE, termYearStart |-> year, termYearEnd |-> year]
    ELSE [tested |-> ~(term.name = "T1" /\ month = 0),
          termYearStart |-> year, termYearEnd |-> year]

\* The test of one term of TERMS: date >= termStartDate && date <= termEndDate.
InTermMonths(term, date) ==
    LET years == TermYears(term, getMonth(date), getFullYear(date))
    IN  /\ years.tested
        /\ date >= NewDate(years.termYearStart, term.startMonth - 1, 1)
        /\ date <= NewDate(years.termYearEnd, term.endMonth, 0)

\* src/Code.js getTermForDate: the first term of TERMS that passes its test.
getTermForDate(date) ==
    LET hits == { i \in 1..Len(TERMS) : InTermMonths(TERMS[i], date) }
    IN  IF hits = {} THEN Null
        ELSE LET term == TERMS[CHOOSE i \in hits : \A j \in hits : i <= j]
             IN  [name |-> term.name,
                  year |-> IF term.name = "T4" /\ getMonth(date) = 0
                           THEN getFullYear(date) - 1 ELSE getFullYear(date),
                  color |-> term.color]

\* src/unnamed/part_000: the terms by their dates; a date stands for its
\* "YYYY-MM-DD" string.
TERMS_DATA ==
    << [name |-> "T1 2025", startDate |-> NewDate(2025, 1, 3), endDate |-> NewDate(2025, 4, 4),
        color |-> "#FF6B6B"],
       [name |-> "T2 2025", startDate |-> NewDate(2025, 4, 5), endDate |-> NewDate(2025, 7, 17),
        color |-> "#4ECDC4"],
       [name |-> "T3 2025", startDate |-> NewDate(2025, 7, 18), endDate |-> NewDate(2025, 10, 2),
        color |-> "#45B7D1"],
       [name |-> "T4 2024", startDate |-> NewDate(2024, 10, 3), endDate |-> NewDate(2026, 1, 1),
        color |-> "#96CEB4"] >>

\* The "Terms" sheet of the second variant, holding the rows of TERMS_DATA:
\* its date cells are Dates at local midnight.
TermsSheet == TERMS_DATA

\* getTermsData: the rows with two valid dates in order, their dates turned
\* into "YYYY-MM-DD" strings by toISOString().
RECURSIVE getTermsData(_, _)
getTermsData(rows, zone) ==
    IF rows = << >> THEN << >>
    ELSE LET row == Head(rows)
             rest == getTermsData(Tail(rows), zone)
         IN  IF ~IsValid(row.startDate) \/ ~IsValid(row.endDate) \/ row.endDate < row.startDate
             THEN rest
             ELSE << [name |-> row.name, startDate |-> toISODay(row.startDate, zone),
                      endDate |-> toISODay(row.endDate, zone), color |-> row.color] >> \o rest

getTerms(variant, zone) ==
    IF variant = "part_000:734" THEN getTermsData(TermsSheet, zone) ELSE TERMS_DATA

\* The term the loop of getTermForDate returns from: the first that passes.
FirstInOrder(hits) == CHOOSE i \in hits : \A j \in hits : i <= j

\* src/unnamed/part_000 getTermForDate: the first term of the list whose
\* start and end, parsed and set to local midnight, enclose the date.
getTermForDateIn(terms, date, zone) ==
    LET hits == { i \in 1..Len(terms) :
                    /\ date >= ParseISODay(terms[i].startDate, zone)
                    /\ date <= ParseISODay(terms[i].endDate, zone) }
    IN  IF hits = {} THEN Null
        ELSE [name |-> terms[FirstInOrder(hits)].name, color |-> terms[FirstInOrder(hits)].color]

YearText(year) ==
    CASE year = 2023 -> "2023" [] year = 2024 -> "2024" [] year = 2025 -> "2025"
      [] year = 2026 -> "2026" [] year = 2027 -> "2027"

\* termForDay, currentTermKey and currentTermActualColor of one key.
TermForKey(dateIso, variant, zone) ==
    LET dayDate == ParseISODay(dateIso, zone)
    IN  IF variant = "Code.js"
        THEN LET termForDay == getTermForDate(dayDate)
             IN  IF termForDay = Null THEN [key |-> Null, color |-> Null]
                 ELSE [key |-> [text |-> termForDay.name \o " " \o YearText(termForDay.year)],
                       color |-> termForDay.color]
        ELSE LET termForDay == getTermForDateIn(getTerms(variant, zone), dayDate, zone)
             IN  IF termForDay = Null THEN [key |-> Null, color |-> Null]
                 ELSE [key |-> [text |-> termForDay.name], color |-> termForDay.color]

\* Array.from(map.keys()).sort(): the keys in ascending order.
RECURSIVE SortKeys(_)
SortKeys(keys) ==
    IF keys = {} THEN << >>
    ELSE LET first == CHOOSE k \in keys : \A j \in keys : k <= j
         IN  << first >> \o SortKeys(keys \ {first})

sortedDailyDateKeys(dailyDateToSheetColMap) == SortKeys(DOMAIN dailyDateToSheetColMap)

OpenOnlyFirstStep(state, keys, i, map, variant, zone) ==
    With(TermForKey(keys[i], variant, zone), LAMBDA term :
        IF state.lastTermKey = Null
        THEN [termMergeRanges |-> state.termMergeRanges,
              currentTermMergeStartCol |-> map[keys[i]],
              lastTermKey |-> term.key,
              currentTermColor |-> term.color]
        ELSE state)

\* The body of the loop over the sorted keys, at index i (from 1).
TermStep(state, keys, i, map, variant, zone) ==
    With(TermForKey(keys[i], variant, zone), LAMBDA term :
        IF term.key # state.lastTermKey
        THEN [termMergeRanges |->
                  IF state.lastTermKey # Null /\ state.currentTermMergeStartCol # -1
                  THEN Append(state.termMergeRanges,
                              [startCol |-> state.currentTermMergeStartCol,
                               endCol |-> map[keys[i - 1]],
                               text |-> state.lastTermKey.text,
                               color |-> state.currentTermColor])
                  ELSE state.termMergeRanges,
              currentTermMergeStartCol |-> map[keys[i]],
              lastTermKey |-> term.key,
              currentTermColor |-> term.color]
        ELSE state)

RECURSIVE TermLoop(_, _, _, _, _, _)
TermLoop(state, keys, i, map, variant, zone) ==
    IF i > Len(keys) THEN state
    ELSE TermLoop(TermStep(state, keys, i, map, variant, zone), keys, i + 1, map, variant, zone)

WithoutLastRange(map, variant, zone) ==
    TermLoop([termMergeRanges |-> << >>, currentTermMergeStartCol |-> -1,
              lastTermKey |-> Null, currentTermColor |-> Null],
             sortedDailyDateKeys(map), 1, map, variant, zone).termMergeRanges

\* termMergeRanges after the loop and the push of the very last range.
termMergeRanges(map, variant, zone) ==
    With(sortedDailyDateKeys(map), LAMBDA keys :
    With(TermLoop([termMergeRanges |-> << >>, currentTermMergeStartCol |-> -1,
                   lastTermKey |-> Null, currentTermColor |-> Null],
                  keys, 1, map, variant, zone), LAMBDA state :
        IF state.lastTermKey # Null /\ state.currentTermMergeStartCol # -1
        THEN Append(state.termMergeRanges,
                    [startCol |-> state.currentTermMergeStartCol,
                     endCol |-> map[keys[Len(keys)]],
                     text |-> state.lastTermKey.text,
                     color |-> state.currentTermColor])
        ELSE state.termMergeRanges))

---------------------------------------------------------------------------
(* generateTimelineHeaders: the week row.  A label "MM/dd-MM/dd" is the    *)
(* pair of its two (month, day) pairs; the empty label is << >>.  The      *)
(* spreadsheet's time zone is the script's.                                *)

\* Utilities.formatDate(date, timeZone, "MM/dd")
FormatMMdd(date) == << getMonth(date) + 1, getDate(date) >>

NoTermColor == "#D3D3D3"

\* The background of a week's cells: the colour of the term of the week's
\* first key, or light grey.
WeekColor(dateIso, variant, zone) ==
    With(TermForKey(dateIso, variant, zone), LAMBDA term :
        IF term.key = Null THEN NoTermColor ELSE term.color)

\* weeklyHeaderStrings and weeklyHeaderStartColIndices: what the loop over
\* the days pushes on each Monday it maps.
weeklyHeaders(pairs, includeWeekends) ==
    LET mondays == SelectSeq(pairs, LAMBDA pair : getDay(pair.date) = 1)
    IN  [i \in 1..Len(mondays) |->
            [startCol |-> mondays[i].col,
             text |-> << FormatMMdd(mondays[i].date),
                         FormatMMdd(getEndOfWeek(mondays[i].date, includeWeekends)) >>]]

Min(a, b) == IF a < b THEN a ELSE b

\* startCol + 4 in src/Code.js, startCol + 6 in src/unnamed/part_000.
WeekSpan(includeWeekends) == IF includeWeekends THEN 6 ELSE 4

\* The merges of row 2 of src/Code.js and of the second variant of part_000.
RECURSIVE MergeWeeks(_, _, _, _, _, _, _)
MergeWeeks(weeks, i, keys, headers, firstFixedColumnIndex, variant, zone) ==
    IF i > Len(weeks) THEN << >>
    ELSE LET startCol == weeks[i].startCol
             endCol == Min(startCol + WeekSpan(variant # "Code.js"), headers.totalHeaderColumns)
             rest == MergeWeeks(weeks, i + 1, keys, headers, firstFixedColumnIndex, variant, zone)
         IN  IF endCol - startCol + 1 > 0
             THEN << [startCol |-> startCol, endCol |-> endCol, text |-> weeks[i].text,
                      color |-> WeekColor(keys[startCol - firstFixedColumnIndex], variant, zone)] >>
                  \o rest
             ELSE rest

\* new Date(dateIso).getDay() between 1 and 5.
IsWeekdayKey(dateIso, zone) ==
    getDay(ParseISODay(dateIso, zone)) >= 1 /\ getDay(ParseISODay(dateIso, zone)) <= 5

\* The inner while loops of the first variant of part_000: the last index of
\* the run of weekday keys, or of week-end keys, that starts at endIdx.
RECURSIVE BlockEnd(_, _, _, _)
BlockEnd(keys, endIdx, weekday, zone) ==
    IF endIdx + 1 <= Len(keys) /\ IsWeekdayKey(keys[endIdx + 1], zone) = weekday
    THEN BlockEnd(keys, endIdx + 1, weekday, zone)
    ELSE endIdx

\* The merges of row 2 of the first variant of part_000: weekday blocks with
\* a label, week-end blocks without.
RECURSIVE MergeBlocks(_, _, _, _, _)
MergeBlocks(keys, i, map, variant, zone) ==
    IF i > Len(keys) THEN << >>
    ELSE With(BlockEnd(keys, i, IsWeekdayKey(keys[i], zone), zone), LAMBDA endIdx :
            LET rest == MergeBlocks(keys, endIdx + 1, map, variant, zone)
            IN  IF map[keys[endIdx]] - map[keys[i]] + 1 > 0
                THEN << [startCol |-> map[keys[i]], endCol |-> map[keys[endIdx]],
                         text |-> IF IsWeekdayKey(keys[i], zone)
                                  THEN << FormatMMdd(ParseISODay(keys[i], zone)),
                                          FormatMMdd(ParseISODay(keys[endIdx], zone)) >>
                                  ELSE << >>,
                         color |-> IF IsWeekdayKey(keys[i], zone)
                                   THEN WeekColor(keys[i], variant, zone)
                                   ELSE NoTermColor] >> \o rest
                ELSE rest)

\* new Date().toISOString().slice(0, 10) of a run at noon of the local day
\* now: in a zone less than twelve hours off UTC this is the day itself.
todayISODay(now, zone) == now

\* new Date(sortedDailyDateKeys[0]) > today for a run at noon of the day now.
FirstKeyAfterNow(map, now) == \A key \in DOMAIN map : key > now

\* The columns the end of generateTimelineHeaders hides: those from the
\* first data column up to the one before today's, or every data column when
\* today has no column and the first key lies after today.
hideColumns(headers, firstFixedColumnIndex, now, zone) ==
    LET map == headers.dailyDateToSheetColMap
        todayISO == todayISODay(now, zone)
    IN  IF todayISO \in DOMAIN map
        THEN IF map[todayISO] > firstFixedColumnIndex + 1
             THEN (firstFixedColumnIndex + 1)..(map[todayISO] - 1)
             ELSE {}
        ELSE IF DOMAIN map # {} /\ FirstKeyAfterNow(map, now)
             THEN (firstFixedColumnIndex + 1)..(firstFixedColumnIndex + headers.totalDataColumns)
             ELSE {}

\* Rows 1 and 2 of the sheet as generateTimelineHeaders leaves them: the
\* merged ranges of the term row and of the week row.
timelineHeaderRows(minOverallDate, maxOverallDate, firstFixedColumnIndex, variant, zone) ==
    With(generateTimelineHeaders(minOverallDate, maxOverallDate, firstFixedColumnIndex,
                                 variant # "Code.js", zone), LAMBDA headers :
    With(sortedDailyDateKeys(headers.dailyDateToSheetColMap), LAMBDA keys :
        [written |-> TRUE,
         hidden |-> hideColumns(headers, firstFixedColumnIndex, today, zone),
         termMergeRanges |-> termMergeRanges(headers.dailyDateToSheetColMap, variant, zone),
         weekRanges |->
             IF variant = "part_000:1"
             THEN MergeBlocks(keys, 1, headers.dailyDateToSheetColMap, variant, zone)
             ELSE MergeWeeks(weeklyHeaders(WalkDays(headers.firstChartDate, headers.lastChartDate,
                                                    firstFixedColumnIndex + 1,
                                                    variant # "Code.js", zone, << >>).pairs,
                                           variant # "Code.js"),
                             1, keys, headers, firstFixedColumnIndex, variant, zone)]))

NoHeaderRows ==
    [written |-> FALSE, hidden |-> {}, termMergeRanges |-> << >>, weekRanges |-> << >>]

---------------------------------------------------------------------------
(* Reading the sheets.  A cell that new Date() cannot parse gives an       *)
(* Invalid Date, whose time value is NaN.                                  *)

CUSTOMER_ROW_COLOR == "#E0FFFF"

\* endDate.setDate(startDate.getDate()), run when endDate < startDate.
AdjustEndDate(startDate, endDate) == setDate(endDate, getDate(startDate))

\* getCustomerData, the body of dataRows.forEach for row i: the customer
\* pushed, or skip = TRUE when the row has no valid date.
CustomerOfRow(i, row) ==
    LET startDate == IF IsValid(row.startDate) THEN row.startDate ELSE row.endDate
        endDate == IF IsValid(row.endDate) THEN row.endDate ELSE row.startDate
    IN  [skip |-> ~IsValid(row.startDate) /\ ~IsValid(row.endDate),
         src |-> i, group |-> "customer", name |-> row.name, id |-> row.name,
         startDate |-> startDate,
         endDate |-> IF IsValid(startDate) /\ IsValid(endDate) /\ endDate < startDate
                     THEN AdjustEndDate(startDate, endDate) ELSE endDate]

RECURSIVE KeptCustomers(_, _)
KeptCustomers(sheet, i) ==
    IF i > Len(sheet) THEN << >>
    ELSE LET c == CustomerOfRow(i, sheet[i])
         IN  (IF c.skip THEN << >>
              ELSE << [src |-> c.src, group |-> c.group, name |-> c.name, id |-> c.id,
                       startDate |-> c.startDate, endDate |-> c.endDate] >>)
             \o KeptCustomers(sheet, i + 1)

getCustomerData(sheet) ==
    [customers |-> KeptCustomers(sheet, 1),
     skipped |-> { i \in 1..Len(sheet) : CustomerOfRow(i, sheet[i]).skip }]

\* The overall dates after customerData.forEach (lines 452-455, 840-843).
RECURSIVE MinStart(_, _)
MinStart(list, least) ==
    IF list = << >> THEN least
    ELSE MinStart(Tail(list), IF Head(list).startDate < least THEN Head(list).startDate ELSE least)

RECURSIVE MaxEnd(_, _)
MaxEnd(list, most) ==
    IF list = << >> THEN most
    ELSE MaxEnd(Tail(list), IF Head(list).endDate > most THEN Head(list).endDate ELSE most)

NoProjectDetail(key) ==
    [epicName |-> "", projectStartDate |-> InvalidDate, projectEndDate |-> InvalidDate]

\* projectDetailsMap.get(key): the last row of the Projects sheet with the key.
ProjectDetail(key) ==
    LET hits == { i \in 1..Len(sheetProjects) : sheetProjects[i].key = key }
    IN  IF hits = {}
        THEN [epicName |-> "", projectStartDate |-> InvalidDate, projectEndDate |-> InvalidDate]
        ELSE LET r == sheetProjects[CHOOSE i \in hits : \A j \in hits : j <= i]
             IN  [epicName |-> r.epicName, projectStartDate |-> r.startDate,
                  projectEndDate |-> r.dueDate]

\* The Date objects projectEndDate of projectDetailsMap, by key: the People
\* rows that fall back to them share them, and setDate changes them in place.
DetailEndDates ==
    LET keys == { sheetProjects[i].key : i \in 1..Len(sheetProjects) }
    IN  [k \in { key \in keys : IsValid(ProjectDetail(key).projectEndDate) } |->
            ProjectDetail(k).projectEndDate]

\* The value of a Date reference: an object of its own, or a shared one.
Deref(ref, heap) == IF ref.shared = "" THEN ref.own ELSE heap[ref.shared]

\* updatePeopleTimeline, the body of dataRowsPeople.forEach for row i (lines
\* 459-508).  acc holds the shared Date objects (heap), the overall dates
\* (the latest as a reference), the projects pushed and the rows skipped.
PeopleRowStep(acc, i) ==
    LET row == sheetPeople[i]
        detail == ProjectDetail(row.key)
        startDate == IF ~IsValid(row.startDate) /\ IsValid(detail.projectStartDate)
                     THEN detail.projectStartDate ELSE row.startDate
        fallBack == ~IsValid(row.endDate) /\ IsValid(detail.projectEndDate)
        endBefore == IF fallBack THEN acc.heap[row.key] ELSE row.endDate
    IN  IF ~IsValid(startDate) \/ ~IsValid(endBefore)
        THEN [acc EXCEPT !.skipped = @ \cup {i}]
        ELSE LET adjust == endBefore < startDate
                 endDate == IF adjust THEN AdjustEndDate(startDate, endBefore) ELSE endBefore
                 heap == IF adjust /\ fallBack THEN [acc.heap EXCEPT ![row.key] = endDate]
                         ELSE acc.heap
                 endRef == [shared |-> IF fallBack THEN row.key ELSE "", own |-> endDate]
             IN  [heap |-> heap,
                  least |-> IF startDate < acc.least THEN startDate ELSE acc.least,
                  most |-> IF endDate > Deref(acc.most, heap) THEN endRef ELSE acc.most,
                  list |-> Append(acc.list,
                                  [src |-> i, group |-> row.person, name |-> row.key,
                                   id |-> IF detail.epicName # "" THEN detail.epicName ELSE row.key,
                                   startDate |-> startDate, endRef |-> endRef]),
                  skipped |-> acc.skipped]

RECURSIVE PeopleRows(_, _)
PeopleRows(acc, i) ==
    IF i > Len(sheetPeople) THEN acc
    ELSE With(PeopleRowStep(acc, i), LAMBDA after : PeopleRows(after, i + 1))

\* The state after dataRowsPeople.forEach, every Date read as it is then.
ReadPeople(customers) ==
    LET Read(acc) ==
            [minOverallTimelineDate |-> acc.least,
             maxOverallTimelineDate |-> Deref(acc.most, acc.heap),
             projects |-> [k \in 1..Len(acc.list) |->
                              [src |-> acc.list[k].src, group |-> acc.list[k].group,
                               name |-> acc.list[k].name, id |-> acc.list[k].id,
                               startDate |-> acc.list[k].startDate,
                               endDate |-> Deref(acc.list[k].endRef, acc.heap)]],
             skipped |-> acc.skipped]
    IN  With(With([heap |-> DetailEndDates,
                   least |-> MinStart(customers, DistantFuture),
                   most |-> [shared |-> "", own |-> MaxEnd(customers, DistantPast)],
                   list |-> << >>, skipped |-> {}],
                  LAMBDA first : PeopleRows(first, 1)), Read)

\* updateProjectTimelines, lines 837-900: the overall dates, then every
\* project with its missing dates defaulted.  No row is left out.
ReadProjects(customers) ==
    LET rows == 1..Len(sheetProjects)
        starts == { sheetProjects[i].startDate : i \in rows } \ {InvalidDate}
        ends == { sheetProjects[i].dueDate : i \in rows } \ {InvalidDate}
        least == MinStart(customers, DistantFuture)
        most == MaxEnd(customers, DistantPast)
        minFound == CHOOSE d \in starts \cup {least} : \A e \in starts \cup {least} : d <= e
        maxFound == CHOOSE d \in ends \cup {most} : \A e \in ends \cup {most} : d >= e
        noneFound == minFound = DistantFuture
        minOverall == IF noneFound THEN NewDate(getFullYear(today), getMonth(today), 1)
                      ELSE minFound
        maxOverall == IF noneFound THEN NewDate(getFullYear(today), getMonth(today) + 1, 0)
                      ELSE maxFound
    IN  [minOverallStartDateFound |-> minOverall,
         maxOverallEndDateFound |-> maxOverall,
         projects |-> [i \in rows |->
            LET row == sheetProjects[i]
                startDate == IF IsValid(row.startDate) THEN row.startDate ELSE minOverall
                endDate == IF IsValid(row.dueDate) THEN row.dueDate ELSE maxOverall
            IN  [src |-> i, group |-> "project", name |-> row.key,
                 id |-> IF row.epicName # "" THEN row.epicName ELSE row.key,
                 startDate |-> startDate,
                 endDate |-> IF endDate < startDate THEN startDate ELSE endDate]]]

---------------------------------------------------------------------------
(* Drawing the rows. *)

\* startSheetCol after the first if: the column of the date, or leastCol when
\* the index has no column for it (or a smaller one).
StartSheetCol(map, date, leastCol) ==
    LET k == toISODay(date, tz)
    IN  IF k \in DOMAIN map /\ map[k] >= leastCol THEN map[k] ELSE leastCol

\* endSheetCol after the second if.
EndSheetCol(map, date, leastCol, totalHeaderColumns) ==
    LET k == toISODay(date, tz)
    IN  IF k \in DOMAIN map /\ map[k] >= leastCol THEN map[k] ELSE totalHeaderColumns

\* The range merged and coloured for one interval.
BarOf(interval, headers, leastCol, color) ==
    LET startSheetCol == StartSheetCol(headers.dailyDateToSheetColMap, interval.startDate, leastCol)
        endSheetCol == EndSheetCol(headers.dailyDateToSheetColMap, interval.endDate, leastCol,
                                   headers.totalHeaderColumns)
    IN  [src |-> interval.src, startDate |-> interval.startDate, endDate |-> interval.endDate,
         startSheetCol |-> startSheetCol,
         endSheetCol |-> IF startSheetCol > endSheetCol THEN startSheetCol ELSE endSheetCol,
         color |-> color]

\* populateCustomerRows: the sheet rows written from startRow on.
populateCustomerRows(customerData, headers, startRow, fixedColumnIndex) ==
    LET packedCustomerRows == PackRows(customerData)
    IN  [r \in 1..Len(packedCustomerRows) |->
            [sheetRow |-> startRow + r - 1, group |-> "customer",
             labelCol |-> fixedColumnIndex, label |-> packedCustomerRows[r][1].name,
             bars |-> [j \in 1..Len(packedCustomerRows[r]) |->
                          BarOf(packedCustomerRows[r][j], headers, fixedColumnIndex + 1,
                                CUSTOMER_ROW_COLOR)]]]

\* The names a Person cell can hold, in the order sort() gives them.
PersonNames == <<"Alice", "Bob">>

LastNameFirst(projects) ==
    SelectSeq(<< PersonNames[2], PersonNames[1] >>,
              LAMBDA p : \E k \in 1..Len(projects) : projects[k].group = p)

\* Array.from(projectsByPerson.keys()).sort()
SortedPeople(projects) ==
    SelectSeq(PersonNames, LAMBDA p : \E k \in 1..Len(projects) : projects[k].group = p)

\* sortedPeople.forEach up to the packing: the packed rows of every person,
\* one after the other.
RECURSIVE PersonPackedRows(_, _)
PersonPackedRows(people, projects) ==
    IF people = << >> THEN << >>
    ELSE LET person == Head(people)
             packed == PackRows(SelectSeq(projects, LAMBDA x : x.group = person))
         IN  [r \in 1..Len(packed) |-> [label |-> person, members |-> packed[r]]]
             \o PersonPackedRows(Tail(people), projects)

\* rowProjects.forEach: one getProjectColor call and one range per project.
RECURSIVE PaintBars(_, _, _, _)
PaintBars(members, mem, headers, leastCol) ==
    IF members = << >> THEN [bars |-> << >>, memory |-> mem]
    ELSE With(SetColor(mem, Head(members).id), LAMBDA after :
              With(PaintBars(Tail(members), after, headers, leastCol), LAMBDA rest :
                   [bars |-> << BarOf(Head(members), headers, leastCol,
                                      after.colors[Head(members).id]) >> \o rest.bars,
                    memory |-> rest.memory]))

\* packedRows.forEach over all people: the sheet rows from sheetRow on.
RECURSIVE PaintRows(_, _, _, _, _)
PaintRows(rows, mem, headers, sheetRow, leastCol) ==
    IF rows = << >> THEN << >>
    ELSE With(PaintBars(Head(rows).members, mem, headers, leastCol), LAMBDA painted :
              << [sheetRow |-> sheetRow, group |-> Head(rows).members[1].group,
                  labelCol |-> 1, label |-> Head(rows).label, bars |-> painted.bars] >>
              \o PaintRows(Tail(rows), painted.memory, headers, sheetRow + 1, leastCol))

\* A timeline sheet nothing was written to, and one cleared by a run that
\* then returned.
NoTimeline ==
    [status |-> "absent", skippedPeople |-> {}, skippedCustomers |-> {},
     minDate |-> 0, maxDate |-> 0, headers |-> NoHeaderInfo, rows |-> << >>,
     hidden |-> {}, builtOn |-> InvalidDate]

ClearedTimeline(skippedPeople, skippedCustomers) ==
    [status |-> "cleared", skippedPeople |-> skippedPeople,
     skippedCustomers |-> skippedCustomers,
     minDate |-> 0, maxDate |-> 0, headers |-> NoHeaderInfo, rows |-> << >>,
     hidden |-> {}, builtOn |-> today]

\* updatePeopleTimeline from the clearing of the sheet on (lines 434-679).
PeopleTimeline ==
    With(getCustomerData(sheetCustomers), LAMBDA customerData :
    With(ReadPeople(customerData.customers), LAMBDA read :
        IF Len(read.projects) = 0 /\ Len(customerData.customers) = 0
        THEN ClearedTimeline(read.skipped, customerData.skipped)
        ELSE With(generateTimelineHeaders(read.minOverallTimelineDate,
                                          read.maxOverallTimelineDate, 2, FALSE, tz),
                  LAMBDA headers :
             With(populateCustomerRows(customerData.customers, headers, 3, 1),
                  LAMBDA customerRows :
             With(PersonPackedRows(SortedPeople(read.projects), read.projects),
                  LAMBDA personRows :
                  [status |-> "drawn", skippedPeople |-> read.skipped,
                   skippedCustomers |-> customerData.skipped,
                   minDate |-> read.minOverallTimelineDate,
                   maxDate |-> read.maxOverallTimelineDate,
                   headers |-> headers,
                   rows |-> customerRows
                            \o PaintRows(personRows, EmptyMemory, headers,
                                         3 + Len(customerRows), 2),
                   hidden |-> hideColumns(headers, 2, today, tz),
                   builtOn |-> today])))))

\* One project per row, in start order.
NoProjectRows(projects) == << >>

ProjectRowsOf(projects) == [k \in 1..Len(projects) |-> [label |-> projects[k].name,
                                                         members |-> << projects[k] >>]]

\* updateProjectTimelines from the clearing of the sheet on (lines 822-1023).
ProjectTimeline ==
    With(getCustomerData(sheetCustomers), LAMBDA customerData :
    With(ReadProjects(customerData.customers), LAMBDA read :
    With(SortByStart(read.projects), LAMBDA allProjectsData :
    With(generateTimelineHeaders(read.minOverallStartDateFound,
                                 read.maxOverallEndDateFound, 1, FALSE, tz),
         LAMBDA headers :
    With(populateCustomerRows(customerData.customers, headers, 3, 1),
         LAMBDA customerRows :
         [status |-> "drawn", skippedPeople |-> {},
          skippedCustomers |-> customerData.skipped,
          minDate |-> read.minOverallStartDateFound,
          maxDate |-> read.maxOverallEndDateFound,
          headers |-> headers,
          rows |-> customerRows
                   \o PaintRows(ProjectRowsOf(allProjectsData), EmptyMemory, headers,
                                3 + Len(customerRows), 1),
          hidden |-> hideColumns(headers, 1, today, tz),
          builtOn |-> today])))))

---------------------------------------------------------------------------
(* Specification SpecPack: a packer applied to every bounded list. *)

PackDays == 1..(MaxStart + MaxSpan)

\* An interval starts on one of the first MaxStart days and ends up to
\* MaxSpan days later, or one day earlier (the end-before-start rows that
\* the normalisation lets through).
PackIntervals ==
    { <<s, e>> \in PackDays \X (0..(MaxStart + MaxSpan)) :
          s <= MaxStart /\ e >= s - 1 /\ e <= s + MaxSpan }

IdleColor ==
    /\ colorMemory = [b \in Builds |-> EmptyMemory]
    /\ lastCall = [build |-> "none", id |-> 0, color |-> "", repeat |-> FALSE]
    /\ firstColor = [b \in Builds |-> << >>]
    /\ order = [b \in Builds |-> << >>]

IdleHeaders ==
    /\ headerArgs = [minOverallDate |-> 0, maxOverallDate |-> 0, firstFixedColumnIndex |-> 1,
                     includeWeekends |-> FALSE, variant |-> "Code.js"]
    /\ headerInfo = NoHeaderInfo
    /\ headerRows = NoHeaderRows

IdleIndex ==
    /\ tz = 0
    /\ IdleHeaders

IdleSheets ==
    /\ sheetPeople = << >>
    /\ sheetProjects = << >>
    /\ sheetCustomers = << >>
    /\ today = 0
    /\ gantt = << >>

MkInterval(i, p) == [id |-> i, startDate |-> p[1], endDate |-> p[2]]

\* The example of the design document: [1,5], [3,7], [6,10].
ExampleList == << <<1, 5>>, <<3, 7>>, <<6, 10>> >>

InitPack ==
    /\ \/ \E n \in 0..MaxIntervals : \E l \in [1..n -> PackIntervals] :
              personProjects = [i \in 1..n |-> MkInterval(i, l[i])]
       \/ personProjects = [i \in 1..3 |-> MkInterval(i, ExampleList[i])]
    /\ packedRows = << >>
    /\ packedBy = "none"
    /\ IdleColor
    /\ IdleIndex
    /\ IdleSheets

\* updatePeopleTimeline, lines 555-584: one person's projects are packed.
PackPersonProjects ==
    /\ packedBy = "none"
    /\ packedRows' = PackRows(personProjects)
    /\ packedBy' = "person"
    /\ UNCHANGED <<personProjects, colorVars, indexVars, sheetVars, gantt>>

\* populateCustomerRows, lines 259-291: an empty list returns at once.
PackCustomerRows ==
    /\ packedBy = "none"
    /\ packedRows' = IF Len(personProjects) = 0 THEN << >> ELSE PackRows(personProjects)
    /\ packedBy' = "customer"
    /\ UNCHANGED <<personProjects, colorVars, indexVars, sheetVars, gantt>>

NextPack == PackPersonProjects \/ PackCustomerRows

SpecPack == InitPack /\ [][NextPack]_vars

----------------------------------------------------------------------------
(* Specification SpecFit: the packers applied to every list of intervals   *)
(* over a few days, for the claims that compare whole packings.            *)

MaxFitStart == 3
MaxFitSpan == 1

\* Starts on the first MaxFitStart days; ends from the day before the start
\* to MaxFitSpan days after it.
FitIntervals ==
    { <<s, e>> \in (1..MaxFitStart) \X (0..(MaxFitStart + MaxFitSpan)) :
          e >= s - 1 /\ e <= s + MaxFitSpan }

InitFit ==
    /\ \E n \in 0..MaxIntervals : \E l \in [1..n -> FitIntervals] :
           personProjects = [i \in 1..n |-> MkInterval(i, l[i])]
    /\ packedRows = << >>
    /\ packedBy = "none"
    /\ IdleColor
    /\ IdleIndex
    /\ IdleSheets

SpecFit == InitFit /\ [][NextPack]_vars

---------------------------------------------------------------------------
(* Claims about the packer, checked under SpecPack. *)

RowOf(rows, r) == { rows[r][j] : j \in 1..Len(rows[r]) }

\* C1: after packing, no two distinct intervals of one row overlap: for every
\* row and every pair A # B in it, A.end < B.start or B.end < A.start.
C1_NoOverlapInRow ==
    packedBy # "none" =>
        \A r \in 1..Len(packedRows) : \A i, j \in 1..Len(packedRows[r]) :
            i # j =>
                LET A == packedRows[r][i]
                    B == packedRows[r][j]
                IN  A.endDate < B.startDate \/ B.endDate < A.startDate

\* A packing where an interval had to leave a row because it shares exactly
\* one day with a member, and another row holds two intervals.
C1_Witness ==
    /\ packedBy # "none"
    /\ \E r \in 1..Len(packedRows) : Len(packedRows[r]) >= 2
    /\ \E r, q \in 1..Len(packedRows) :
           /\ r < q
           /\ \E A \in RowOf(packedRows, r), B \in RowOf(packedRows, q) :
                  A.startDate < A.endDate /\ A.endDate = B.startDate /\ B.startDate < B.endDate

\* The largest number of intervals of the list that contain one common day.
CoveredAt(list, d) ==
    Cardinality({ i \in 1..Len(list) : list[i].startDate <= d /\ d <= list[i].endDate })

MaxSimultaneous(list) ==
    LET days == { list[i].startDate : i \in 1..Len(list) }
    IN  IF days = {} THEN 0
        ELSE CHOOSE k \in 0..Len(list) :
                 /\ \E d \in days : CoveredAt(list, d) = k
                 /\ \A d \in days : CoveredAt(list, d) <= k

\* C2: when every interval of the list has start <= end, the packer returns
\* exactly as many rows as the largest number of intervals that contain one
\* common day (none for the empty list); [1,5], [3,7], [6,10] gives two rows,
\* [1,5] with [6,10] and [3,7] alone.
C2_RowMinimality ==
    packedBy # "none" =>
        /\ (\A i \in 1..Len(personProjects) :
                personProjects[i].startDate <= personProjects[i].endDate)
               => Len(packedRows) = MaxSimultaneous(personProjects)
        /\ personProjects = [i \in 1..3 |-> MkInterval(i, ExampleList[i])]
               => packedRows = << <<MkInterval(1, <<1, 5>>), MkInterval(3, <<6, 10>>)>>,
                                  <<MkInterval(2, <<3, 7>>)>> >>

\* The example has been packed, into two rows.
C2_Witness ==
    /\ packedBy = "person"
    /\ personProjects = [i \in 1..3 |-> MkInterval(i, ExampleList[i])]
    /\ Len(packedRows) = 2
    /\ MaxSimultaneous(personProjects) = 2

---------------------------------------------------------------------------
(* Specification SpecColor: the two builds' colour assigners, called with  *)
(* any sequence of identifiers.  Identifiers are opaque, so each build     *)
(* meets its new identifiers in a fixed order: the people build 0, 1, 2,   *)
(* ... and the projects build MaxIds-1, MaxIds-2, ..., which gives every   *)
(* identifier a different rank in the two builds.  Repeated requests are   *)
(* free, and the calls of the two builds interleave freely.                *)

Ids == 0..(MaxIds - 1)

NextNewId(b) ==
    IF b = "people" THEN Len(order[b]) ELSE MaxIds - 1 - Len(order[b])

SeenIds(b) == { order[b][i] : i \in 1..Len(order[b]) }

IdlePack ==
    /\ personProjects = << >>
    /\ packedRows = << >>
    /\ packedBy = "none"

InitColor ==
    /\ IdleColor
    /\ IdlePack
    /\ IdleIndex
    /\ IdleSheets

\* A build starts: "const projectColors = new Map(); let colorIndex = 0;".
StartBuild(b) ==
    /\ colorMemory' = [colorMemory EXCEPT ![ColorScope(b)] = EmptyMemory]
    /\ firstColor' = [firstColor EXCEPT ![b] = << >>]
    /\ order' = [order EXCEPT ![b] = << >>]
    /\ lastCall' = [build |-> "none", id |-> 0, color |-> "", repeat |-> FALSE]
    /\ UNCHANGED <<packVars, indexVars, sheetVars, gantt>>

\* getProjectColor(id) in build b.
GetProjectColor(b, id) ==
    LET mem == SetColor(colorMemory[ColorScope(b)], id)
        isNew == id \notin SeenIds(b)
    IN  /\ id \in SeenIds(b) \/ (Len(order[b]) < MaxIds /\ id = NextNewId(b))
        /\ colorMemory' = [colorMemory EXCEPT ![ColorScope(b)] = mem]
        /\ lastCall' = [build |-> b, id |-> id, color |-> mem.colors[id], repeat |-> ~isNew]
        /\ firstColor' = IF isNew
                         THEN [firstColor EXCEPT ![b] =
                                  [k \in (DOMAIN firstColor[b]) \cup {id} |->
                                      IF k = id THEN mem.colors[id] ELSE firstColor[b][k]]]
                         ELSE firstColor
        /\ order' = IF isNew THEN [order EXCEPT ![b] = Append(order[b], id)] ELSE order
        /\ UNCHANGED <<packVars, indexVars, sheetVars, gantt>>

NextColor ==
    \/ \E b \in Builds : StartBuild(b)
    \/ \E b \in Builds : \E id \in Ids : GetProjectColor(b, id)

SpecColor == InitColor /\ [][NextColor]_vars

---------------------------------------------------------------------------
(* Claims about the colour assigner, checked under SpecColor. *)

\* C7: within one build, every call of getProjectColor with an identifier
\* returns the colour its first call returned, whatever was asked in between.
C7_ColorStable ==
    lastCall.build # "none" =>
        /\ lastCall.id \in DOMAIN firstColor[lastCall.build]
        /\ lastCall.color = firstColor[lastCall.build][lastCall.id]

\* A repeated call for the people build's first identifier after more than 19
\* other identifiers were requested.
C7_Witness ==
    /\ lastCall.build = "people"
    /\ lastCall.repeat
    /\ lastCall.id = order["people"][1]
    /\ Len(order["people"]) > Len(availableColors) + 1

RankOf(b, id) == (CHOOSE i \in 1..Len(order[b]) : order[b][i] = id) - 1

\* C8: the k-th distinct identifier of a build (k from 0) has palette[k mod 19];
\* a repeated request does not advance the counter; the 20th distinct
\* identifier has palette[0].
C8_PaletteCycle ==
    /\ Len(availableColors) = 19
    /\ \A b \in Builds :
          /\ DOMAIN colorMemory[b].colors = SeenIds(b)
          /\ colorMemory[b].index = Len(order[b])
          /\ \A id \in SeenIds(b) :
                 colorMemory[b].colors[id] = availableColors[(RankOf(b, id) % 19) + 1]
          /\ Len(order[b]) >= 20 => colorMemory[b].colors[order[b][20]] = availableColors[1]

\* The 20th distinct identifier has its colour and a repeated request followed.
C8_Witness ==
    /\ Len(order["people"]) = 20
    /\ colorMemory["people"].colors[order["people"][20]] = "#ADD8E6"
    /\ lastCall.build = "people"
    /\ lastCall.repeat

\* A build on its own: its identifiers, in the order of their first request,
\* given to a fresh assigner.
RECURSIVE RunAlone(_, _)
RunAlone(mem, ids) ==
    IF ids = << >> THEN mem ELSE RunAlone(SetColor(mem, Head(ids)), Tail(ids))

\* C9: each build's colour memory is the one the build would have if it ran
\* alone: nothing the other build assigned is visible in it, and every call
\* returns the colour the build alone would return.
C9_BuildsIsolated ==
    /\ \A b \in Builds : colorMemory[b] = RunAlone(EmptyMemory, order[b])
    /\ lastCall.build # "none" =>
           lastCall.color = RunAlone(EmptyMemory, order[lastCall.build]).colors[lastCall.id]

\* Both builds have coloured one identifier, differently, and the last call
\* repeats a request for it.
C9_Witness ==
    /\ lastCall.build = "projects"
    /\ lastCall.repeat
    /\ lastCall.id \in SeenIds("people")
    /\ colorMemory["people"].colors[lastCall.id] # lastCall.color

---------------------------------------------------------------------------
(* Specification SpecIndex: generateTimelineHeaders called with every pair *)
(* of overall dates of a window that holds a week end and a month's end,   *)
(* in both variants, with the fixed column of either caller.               *)

WindowStarts == { NewDate(2025, 0, 27), NewDate(2026, 0, 29) }

WindowDays(start) == start..(start + MaxWindow - 1)

InitIndex ==
    /\ IdlePack
    /\ IdleColor
    /\ IdleSheets
    /\ tz \in TimeZones
    /\ \E start \in WindowStarts, f \in {1, 2}, v \in Variants :
           \E mn \in WindowDays(start), mx \in WindowDays(start) :
               headerArgs = [minOverallDate |-> mn, maxOverallDate |-> mx,
                             firstFixedColumnIndex |-> f, includeWeekends |-> v # "Code.js",
                             variant |-> v]
    /\ headerInfo = NoHeaderInfo
    /\ headerRows = NoHeaderRows

GenerateTimelineHeaders ==
    /\ ~headerInfo.built
    /\ headerInfo' = generateTimelineHeaders(headerArgs.minOverallDate, headerArgs.maxOverallDate,
                                             headerArgs.firstFixedColumnIndex,
                                             headerArgs.includeWeekends, tz)
    /\ headerRows' = timelineHeaderRows(headerArgs.minOverallDate, headerArgs.maxOverallDate,
                                        headerArgs.firstFixedColumnIndex, headerArgs.variant, tz)
    /\ UNCHANGED <<packVars, colorVars, tz, headerArgs, sheetVars, gantt>>

NextIndex == GenerateTimelineHeaders

SpecIndex == InitIndex /\ [][NextIndex]_vars

---------------------------------------------------------------------------
(* Claims about the index, checked under SpecIndex. *)

\* The local day a key of the index stands for.
DayOfKey(k) == IF tz > 0 THEN k + 1 ELSE k

IndexKeys == DOMAIN headerInfo.dailyDateToSheetColMap

\* C10: the i-th included day in date order has the first included day's
\* column plus i: the columns increase with the date and have no gap; in the
\* work-week variant Saturday and Sunday have no column, and a Friday and
\* the Monday after it have consecutive columns.
C10_ColumnsContiguous ==
    headerInfo.built =>
        LET map == headerInfo.dailyDateToSheetColMap
        IN  /\ \A k \in IndexKeys :
                   map[k] = headerArgs.firstFixedColumnIndex + 1
                            + Cardinality({ j \in IndexKeys : j < k })
            /\ ~headerArgs.includeWeekends =>
                   /\ \A k \in IndexKeys : getDay(DayOfKey(k)) \in 1..5
                   /\ \A d \in headerInfo.firstChartDate..headerInfo.lastChartDate :
                          /\ getDay(d) \in {0, 6} => toISODay(d, tz) \notin IndexKeys
                          /\ (getDay(d) = 5 /\ toISODay(d + 3, tz) \in IndexKeys) =>
                                 /\ toISODay(d, tz) \in IndexKeys
                                 /\ map[toISODay(d + 3, tz)] = map[toISODay(d, tz)] + 1
            /\ headerArgs.includeWeekends =>
                   \A d \in headerInfo.firstChartDate..headerInfo.lastChartDate :
                       toISODay(d, tz) \in IndexKeys

\* A work-week index of two weeks or more: a Friday, the week end without
\* columns and the next Monday lie inside it.
C10_Witness ==
    /\ headerInfo.built
    /\ ~headerArgs.includeWeekends
    /\ headerInfo.totalDataColumns >= 10
    /\ \E d \in headerInfo.firstChartDate..headerInfo.lastChartDate :
           getDay(d) = 5 /\ toISODay(d + 3, tz) \in IndexKeys


---------------------------------------------------------------------------
(* Specification Spec: the two timelines built from the three sheets.  The *)
(* dates of the People sheet are every second day from Thursday 2025-01-30 *)
(* on: a Thursday, a Saturday, a Monday of the next month.                 *)

FirstSample == NewDate(2025, 0, 30)

SampleDates == { FirstSample + 2 * k : k \in 0..(MaxSamples - 1) }

ProjectKeys == {"K1"}

PeopleSheets(maxRows, names, dates) ==
    UNION { [1..n -> [person : names, key : ProjectKeys, startDate : dates, endDate : dates]] :
            n \in 0..maxRows }

ProjectSheets(maxRows, starts, dues) ==
    UNION { [1..n -> [key : ProjectKeys, epicName : {""}, startDate : starts, dueDate : dues]] :
            n \in 0..maxRows }

CustomerSheets(maxRows, starts, ends) ==
    UNION { [1..n -> [name : {"Acme"}, startDate : starts, endDate : ends]] : n \in 0..maxRows }

NoTimelines == [people |-> NoTimeline, projects |-> NoTimeline]

Init ==
    /\ IdlePack
    /\ IdleColor
    /\ IdleHeaders
    /\ tz \in TimeZones
    /\ today = FirstSample
    /\ sheetPeople \in PeopleSheets(MaxRows, {"Alice", "Bob"}, SampleDates)
    /\ sheetProjects \in ProjectSheets(1, {InvalidDate, FirstSample + 2}, {FirstSample + 2})
    /\ sheetCustomers \in CustomerSheets(1, {FirstSample}, {InvalidDate, FirstSample + 4})
    /\ gantt = NoTimelines

OnUnclearedSheet(before, timeline) ==
    [timeline EXCEPT !.hidden = before.hidden \cup @, !.rows = before.rows \o @]

\* What a run leaves on a timeline sheet that was there before: the sheet is
\* emptied of merges, contents and formats, not of its hidden columns, to
\* which the run adds its own.
OnSheet(before, timeline) == [timeline EXCEPT !.hidden = before.hidden \cup @]

\* updatePeopleTimeline: it returns before touching the timeline sheet when
\* the People or the Projects sheet has no data row.
PeopleRun(sheets) ==
    IF Len(sheetPeople) = 0 \/ Len(sheetProjects) = 0 THEN sheets
    ELSE [sheets EXCEPT !.people = OnSheet(sheets.people, PeopleTimeline)]

\* updateProjectTimelines: it returns when the Projects sheet has no data row.
ProjectRun(sheets) ==
    IF Len(sheetProjects) = 0 THEN sheets
    ELSE [sheets EXCEPT !.projects = OnSheet(sheets.projects, ProjectTimeline)]

UpdatePeopleTimeline ==
    /\ gantt' = PeopleRun(gantt)
    /\ UNCHANGED <<packVars, colorVars, indexVars, sheetVars>>

UpdateProjectTimelines ==
    /\ gantt' = ProjectRun(gantt)
    /\ UNCHANGED <<packVars, colorVars, indexVars, sheetVars>>

UpdateAllTimelines ==
    /\ gantt' = ProjectRun(PeopleRun(gantt))
    /\ UNCHANGED <<packVars, colorVars, indexVars, sheetVars>>

Next ==
    \/ UpdatePeopleTimeline
    \/ UpdateProjectTimelines
    \/ UpdateAllTimelines

Spec == Init /\ [][Next]_vars

---------------------------------------------------------------------------
(* Specification SpecExample: the same runs over a People sheet that holds *)
(* the three rows of the documented example, in any order.                 *)

ExampleRows ==
    { [person |-> "Alice", key |-> "A",
       startDate |-> NewDate(2025, 0, 6), endDate |-> NewDate(2025, 0, 8)],
      [person |-> "Alice", key |-> "B",
       startDate |-> NewDate(2025, 0, 7), endDate |-> NewDate(2025, 0, 10)],
      [person |-> "Bob", key |-> "C",
       startDate |-> NewDate(2025, 0, 6), endDate |-> NewDate(2025, 0, 9)] }

ExampleSheets ==
    { sheet \in [1..Cardinality(ExampleRows) -> ExampleRows] :
          \A i, j \in DOMAIN sheet : sheet[i] = sheet[j] => i = j }

InitExample ==
    /\ IdlePack
    /\ IdleColor
    /\ IdleHeaders
    /\ tz \in TimeZones
    /\ today = FirstSample
    /\ sheetPeople \in ExampleSheets
    /\ sheetProjects \in ProjectSheets(1, {InvalidDate, FirstSample + 2}, {FirstSample + 2})
    /\ sheetCustomers = << >>
    /\ gantt = NoTimelines

SpecExample == InitExample /\ [][Next]_vars

---------------------------------------------------------------------------
(* Specification SpecRows: the same runs over sheets of two people whose   *)
(* rows start and end on one of two days, with or without a customer row.  *)

RowDates == { FirstSample, FirstSample + 1 }

InitRows ==
    /\ IdlePack
    /\ IdleColor
    /\ IdleHeaders
    /\ tz \in TimeZones
    /\ today = FirstSample
    /\ sheetPeople \in PeopleSheets(MaxRows, {"Alice", "Bob"}, RowDates)
    /\ sheetProjects \in ProjectSheets(1, {FirstSample}, {FirstSample + 1})
    /\ sheetCustomers \in CustomerSheets(1, {FirstSample}, {FirstSample + 1})
    /\ gantt = NoTimelines

SpecRows == InitRows /\ [][Next]_vars

----------------------------------------------------------------------------
(* Specification SpecTerms: the headers of src/Code.js over windows that   *)
(* hold a change of term on a weekday (Thu 2025-05-01) and a change of     *)
(* year inside a term (Thu 2026-01-01).                                    *)

TermWindowStarts == { NewDate(2025, 3, 28), NewDate(2025, 11, 29) }

InitTerms ==
    /\ IdlePack
    /\ IdleColor
    /\ IdleSheets
    /\ tz \in TimeZones
    /\ \E start \in TermWindowStarts, f \in {1, 2} :
           \E mn \in WindowDays(start), mx \in WindowDays(start) :
               headerArgs = [minOverallDate |-> mn, maxOverallDate |-> mx,
                             firstFixedColumnIndex |-> f, includeWeekends |-> FALSE,
                             variant |-> "Code.js"]
    /\ headerInfo = NoHeaderInfo
    /\ headerRows = NoHeaderRows

SpecTerms == InitTerms /\ [][NextIndex]_vars

----------------------------------------------------------------------------
(* Specification SpecClock: the timelines rebuilt as the days go by, from  *)
(* the Sunday before the week of the samples.                              *)

MaxClock == 8

FirstClockDay == NewDate(2025, 0, 26)

InitClock ==
    /\ IdlePack
    /\ IdleColor
    /\ IdleHeaders
    /\ tz \in TimeZones
    /\ today = FirstClockDay
    /\ sheetPeople \in PeopleSheets(1, {"Alice"}, {FirstSample}) \ { << >> }
    /\ sheetProjects \in ProjectSheets(1, {InvalidDate, FirstSample}, {FirstSample + 1})
                             \ { << >> }
    /\ sheetCustomers = << >>
    /\ gantt = NoTimelines

\* The clock that new Date() reads moves on to the next day.
AdvanceClock ==
    /\ today < FirstClockDay + MaxClock
    /\ today' = today + 1
    /\ UNCHANGED <<packVars, colorVars, indexVars, sheetPeople, sheetProjects,
                   sheetCustomers, gantt>>

NextClock == Next \/ AdvanceClock

SpecClock == InitClock /\ [][NextClock]_vars

---------------------------------------------------------------------------
(* Specification SpecInput: the same runs over sheets whose cells hold one *)
(* of two dates or nothing parseable.                                      *)

InputDates == {InvalidDate, FirstSample, FirstSample + 4}

InitInput ==
    /\ IdlePack
    /\ IdleColor
    /\ IdleIndex
    /\ today = FirstSample
    /\ sheetPeople \in PeopleSheets(MaxInputRows, {"Alice"}, InputDates)
    /\ sheetProjects \in ProjectSheets(1, {InvalidDate, FirstSample}, {InvalidDate, FirstSample})
    /\ sheetCustomers \in CustomerSheets(1, {InvalidDate, FirstSample + 4},
                                         {InvalidDate, FirstSample + 4})
    /\ gantt = NoTimelines

SpecInput == InitInput /\ [][Next]_vars


---------------------------------------------------------------------------
(* Claims about the timelines, checked under Spec and SpecInput. *)

Timelines == {"people", "projects"}

\* Every range merged in a timeline, with the group of its sheet row.
AllBars(t) ==
    UNION { { [group |-> gantt[t].rows[r].group, bar |-> gantt[t].rows[r].bars[j]] :
                j \in 1..Len(gantt[t].rows[r].bars) } : r \in 1..Len(gantt[t].rows) }

HasBar(t, group, i) == \E x \in AllBars(t) : x.group = group /\ x.bar.src = i

\* The start and end cells of the sheet row a range was drawn for.
CellsOf(x) ==
    IF x.group = "customer"
    THEN [startDate |-> sheetCustomers[x.bar.src].startDate,
          endDate |-> sheetCustomers[x.bar.src].endDate]
    ELSE IF x.group = "project"
    THEN [startDate |-> sheetProjects[x.bar.src].startDate,
          endDate |-> sheetProjects[x.bar.src].dueDate]
    ELSE [startDate |-> sheetPeople[x.bar.src].startDate,
          endDate |-> sheetPeople[x.bar.src].endDate]

\* C3 (as stated): within one sheet row the merged column ranges of two
\* intervals are disjoint, clamped ranges included.
C3_SpansDisjoint ==
    \A t \in Timelines : \A r \in 1..Len(gantt[t].rows) :
        \A i, j \in 1..Len(gantt[t].rows[r].bars) :
            i < j =>
                LET a == gantt[t].rows[r].bars[i]
                    b == gantt[t].rows[r].bars[j]
                IN  a.endSheetCol < b.startSheetCol \/ b.endSheetCol < a.startSheetCol

\* C4 (as stated): a row whose end is before its start is drawn as the
\* one-day interval of its start, whatever the days, months and years of the
\* two dates; every interval drawn has start <= end.
C4_EndSetToStart ==
    \A t \in Timelines : \A x \in AllBars(t) :
        /\ x.bar.startDate <= x.bar.endDate
        /\ LET cells == CellsOf(x)
           IN  (IsValid(cells.startDate) /\ IsValid(cells.endDate)
                    /\ cells.endDate < cells.startDate)
                   => (x.bar.startDate = cells.startDate /\ x.bar.endDate = cells.startDate)

\* Whether a People row still has both dates after the fallback to the dates
\* of the last Projects row with its key.
KeepsPeopleRow(i) ==
    LET row == sheetPeople[i]
        hits == { k \in 1..Len(sheetProjects) : sheetProjects[k].key = row.key }
        last == CHOOSE k \in hits : \A j \in hits : j <= k
    IN  /\ IsValid(row.startDate) \/ (hits # {} /\ IsValid(sheetProjects[last].startDate))
        /\ IsValid(row.endDate) \/ (hits # {} /\ IsValid(sheetProjects[last].dueDate))

KeepsCustomerRow(i) ==
    IsValid(sheetCustomers[i].startDate) \/ IsValid(sheetCustomers[i].endDate)

FirstDayCol(h) == h.totalHeaderColumns - h.totalDataColumns + 1

\* The Friday before and the Monday after a Saturday or Sunday.
AdjacentBusinessDays(d) ==
    IF getDay(d) = 6 THEN {d - 1, d + 2} ELSE IF getDay(d) = 0 THEN {d - 2, d + 1} ELSE {d}

\* The columns the clamping rule allows for a date: its own column, else the
\* first or last day column for a date off the axis, else the column of an
\* adjacent business day.
NearestColumns(h, d) ==
    LET map == h.dailyDateToSheetColMap
    IN  IF toISODay(d, tz) \in DOMAIN map THEN {map[toISODay(d, tz)]}
        ELSE IF d < h.firstChartDate THEN {FirstDayCol(h)}
        ELSE IF d > h.lastChartDate THEN {h.totalHeaderColumns}
        ELSE { map[toISODay(x, tz)] :
                 x \in { y \in AdjacentBusinessDays(d) : toISODay(y, tz) \in DOMAIN map } }

\* C6 (as stated): an interval end without a column is drawn at the nearest
\* valid column (first or last day column off the axis, an adjacent business
\* day's column for a weekend day), and no interval is left out for it.
C6_ClampedToNearestColumn ==
    /\ \A t \in Timelines :
          gantt[t].headers.totalDataColumns > 0 =>
              \A x \in AllBars(t) :
                  x.bar.startDate <= x.bar.endDate =>
                      /\ x.bar.startSheetCol \in NearestColumns(gantt[t].headers, x.bar.startDate)
                      /\ x.bar.endSheetCol \in NearestColumns(gantt[t].headers, x.bar.endDate)
    /\ gantt.people.status = "drawn" =>
          \A i \in 1..Len(sheetPeople) :
              KeepsPeopleRow(i) => HasBar("people", sheetPeople[i].person, i)


---------------------------------------------------------------------------
(* Claims about the axis, checked under SpecIndex. *)

\* The local days that have a column.
IndexDays == { DayOfKey(k) : k \in IndexKeys }

FirstIndexDay == CHOOSE d \in IndexDays : \A e \in IndexDays : d <= e

LastIndexDay == CHOOSE d \in IndexDays : \A e \in IndexDays : d >= e

\* The getDay() of the last day of a week of the axis.
LastWeekday(includeWeekends) == IF includeWeekends THEN 0 ELSE 5

DaysPerWeek(includeWeekends) == IF includeWeekends THEN 7 ELSE 5

C12_AxisCoversMinMax ==
    headerInfo.built =>
        /\ getDay(headerInfo.firstChartDate) = 1
        /\ headerInfo.firstChartDate <= headerArgs.minOverallDate
        /\ headerArgs.minOverallDate - headerInfo.firstChartDate <= 6
        /\ getDay(headerInfo.lastChartDate) = LastWeekday(headerArgs.includeWeekends)
        /\ headerInfo.lastChartDate >= headerArgs.maxOverallDate
        /\ headerInfo.lastChartDate - headerArgs.maxOverallDate <= 6

\* C12 (amended): as stated, except that in a work week the axis of a maxDate
\* on a Saturday or Sunday ends on the Friday just before maxDate.
C12_AxisEndsOnWeekOfMax ==
    headerInfo.built =>
        LET first == headerInfo.firstChartDate
            last == headerInfo.lastChartDate
            least == headerArgs.minOverallDate
            most == headerArgs.maxOverallDate
        IN  /\ getDay(first) = 1
            /\ first <= least
            /\ least - first <= 6
            /\ getDay(last) = LastWeekday(headerArgs.includeWeekends)
            /\ (headerArgs.includeWeekends \/ getDay(most) \in 1..5) =>
                   (last >= most /\ last - most <= 6)
            /\ (~headerArgs.includeWeekends /\ getDay(most) = 6) => last = most - 1
            /\ (~headerArgs.includeWeekends /\ getDay(most) = 0) => last = most - 2

\* A work-week index asked for up to a Saturday, from a Sunday.
C12_Witness ==
    /\ headerInfo.built
    /\ ~headerArgs.includeWeekends
    /\ getDay(headerArgs.maxOverallDate) = 6
    /\ getDay(headerArgs.minOverallDate) = 0

---------------------------------------------------------------------------
(* Claims about the term row, checked under SpecIndex. *)

\* The columns that hold a day.
DataColumns == { headerInfo.dailyDateToSheetColMap[k] : k \in IndexKeys }

KeyOfColumn(col) == CHOOSE k \in IndexKeys : headerInfo.dailyDateToSheetColMap[k] = col

\* The term the day of a column resolves to, Null for no term.
ResolvedTerm(col) == TermForKey(KeyOfColumn(col), headerArgs.variant, tz)

ColumnsOf(range) == range.startCol..range.endCol

TermSegmentsAt(col) ==
    { i \in 1..Len(headerRows.termMergeRanges) : col \in ColumnsOf(headerRows.termMergeRanges[i]) }

\* The segments follow one another from left to right and stay within the
\* day columns.
TermSegmentsInOrder ==
    /\ \A i \in 1..Len(headerRows.termMergeRanges) :
           /\ headerRows.termMergeRanges[i].startCol <= headerRows.termMergeRanges[i].endCol
           /\ ColumnsOf(headerRows.termMergeRanges[i]) \subseteq DataColumns
    /\ \A i \in 1..(Len(headerRows.termMergeRanges) - 1) :
           headerRows.termMergeRanges[i].endCol < headerRows.termMergeRanges[i + 1].startCol

TermSegmentsUniform ==
    \A i \in 1..Len(headerRows.termMergeRanges) :
        \A col \in ColumnsOf(headerRows.termMergeRanges[i]) \cap DataColumns :
            /\ ResolvedTerm(col).key = [text |-> headerRows.termMergeRanges[i].text]
            /\ ResolvedTerm(col).color = headerRows.termMergeRanges[i].color

\* Two segments next to each other carry different terms.
AdjacentTermSegmentsDiffer ==
    \A i \in 1..(Len(headerRows.termMergeRanges) - 1) :
        headerRows.termMergeRanges[i].endCol + 1 = headerRows.termMergeRanges[i + 1].startCol =>
            headerRows.termMergeRanges[i].text # headerRows.termMergeRanges[i + 1].text

\* The term changes between a day column and the next one.
TermChangesAfter(col) ==
    /\ col \in DataColumns
    /\ col + 1 \in DataColumns
    /\ ResolvedTerm(col).key # ResolvedTerm(col + 1).key

TermSegmentEndsAt(col) ==
    \E i \in 1..Len(headerRows.termMergeRanges) : headerRows.termMergeRanges[i].endCol = col

TermSegmentStartsAt(col) ==
    \E i \in 1..Len(headerRows.termMergeRanges) : headerRows.termMergeRanges[i].startCol = col

---------------------------------------------------------------------------
(* Claims about the resolution of terms, checked under SpecIndex. *)

\* The terms of the catalog whose closed range holds the day.
ContainingTerms(day) ==
    { i \in 1..Len(TERMS_DATA) : TERMS_DATA[i].startDate <= day /\ day <= TERMS_DATA[i].endDate }

\* C15: with the catalog of dated terms, the day of every column resolves to
\* the first term in catalog order whose closed range contains the day, and
\* to no term when no range contains it.
C15_FirstContainingTerm ==
    (headerRows.written /\ headerArgs.variant # "Code.js") =>
        \A col \in DataColumns :
            LET hits == ContainingTerms(DayOfKey(KeyOfColumn(col)))
            IN  ResolvedTerm(col).key =
                    IF hits = {} THEN Null
                    ELSE [text |-> TERMS_DATA[CHOOSE i \in hits : \A j \in hits : i <= j].name]

---------------------------------------------------------------------------
(* Claims about the week row, checked under SpecIndex. *)

\* The column of a local day of the axis.
ColumnOfDay(day) == headerInfo.dailyDateToSheetColMap[toISODay(day, tz)]

WeekSegmentsAt(col) ==
    { i \in 1..Len(headerRows.weekRanges) : col \in ColumnsOf(headerRows.weekRanges[i]) }

\* C16: every week of the axis has exactly one week segment, from its
\* Monday's column over all columns of the week (5 or 7), labelled with the
\* Monday and the week's last day; the week segments tile the day columns
\* and none leaves them.
C16_OneSegmentPerWeek ==
    headerRows.written =>
        /\ \A day \in IndexDays :
               getDay(day) = 1 =>
                   \E i \in 1..Len(headerRows.weekRanges) :
                       /\ headerRows.weekRanges[i].startCol = ColumnOfDay(day)
                       /\ headerRows.weekRanges[i].endCol
                              = ColumnOfDay(day) + DaysPerWeek(headerArgs.includeWeekends) - 1
                       /\ headerRows.weekRanges[i].text
                              = << FormatMMdd(day),
                                   FormatMMdd(day + DaysPerWeek(headerArgs.includeWeekends) - 1) >>
        /\ Len(headerRows.weekRanges) = Cardinality({ day \in IndexDays : getDay(day) = 1 })
        /\ \A col \in DataColumns : Cardinality(WeekSegmentsAt(col)) = 1
        /\ \A i \in 1..Len(headerRows.weekRanges) :
               ColumnsOf(headerRows.weekRanges[i]) \subseteq DataColumns

---------------------------------------------------------------------------
(* Claims about the grid of a build, checked under Spec. *)

\* The column of the first day of the axis.
ColumnOfFirstDay(h) == h.dailyDateToSheetColMap[toISODay(h.firstChartDate, tz)]

\* C17: in the people timeline and in the projects timeline the first day
\* of the axis has the column right after the label column, so that no
\* column between the labels and the first day is left without a day.
C17_FirstDayColumnAfterLabel ==
    \A t \in Timelines :
        (gantt[t].status = "drawn" /\ gantt[t].headers.totalDataColumns > 0) =>
            \A r \in 1..Len(gantt[t].rows) :
                /\ ColumnOfFirstDay(gantt[t].headers) = gantt[t].rows[r].labelCol + 1
                /\ FirstDayCol(gantt[t].headers) = gantt[t].rows[r].labelCol + 1

---------------------------------------------------------------------------
(* Claims about sheets without a usable interval, checked under SpecInput. *)

NoPeopleRowKept == \A i \in 1..Len(sheetPeople) : ~KeepsPeopleRow(i)

NoCustomerRowKept == \A i \in 1..Len(sheetCustomers) : ~KeepsCustomerRow(i)

NoProjectStart ==
    \A i \in 1..Len(sheetProjects) : ~IsValid(sheetProjects[i].startDate)

\* C18 as stated: a build over sheets without a valid interval yields a grid
\* with no data row and an index of at least one whole week.
C18_EmptyInputGivesEmptyWeek ==
    /\ (gantt.people.status # "absent" /\ NoPeopleRowKept /\ NoCustomerRowKept) =>
           /\ gantt.people.status = "drawn"
           /\ Len(gantt.people.rows) = 0
           /\ gantt.people.headers.totalDataColumns >= 5
    /\ (gantt.projects.status # "absent" /\ NoProjectStart /\ NoCustomerRowKept) =>
           /\ gantt.projects.status = "drawn"
           /\ Len(gantt.projects.rows) = 0
           /\ gantt.projects.headers.totalDataColumns >= 5

\* C18, amended: without a valid interval no build fails and none yields an
\* empty grid.  The people build clears its sheet and returns without index
\* and rows; a build returns before touching its sheet when a sheet it needs
\* has no data row; the projects build draws every Projects row, and without
\* a usable start date its index is the whole weeks of the current month.
C18_NoGridWithoutIntervals ==
    /\ (gantt.people.status # "absent" /\ NoPeopleRowKept /\ NoCustomerRowKept) =>
           /\ gantt.people.status = "cleared"
           /\ gantt.people.rows = << >>
           /\ gantt.people.headers = NoHeaderInfo
    /\ (Len(sheetPeople) = 0 \/ Len(sheetProjects) = 0) => gantt.people.status = "absent"
    /\ Len(sheetProjects) = 0 => gantt.projects.status = "absent"
    /\ gantt.projects.status # "absent" =>
           /\ gantt.projects.status = "drawn"
           /\ Len(gantt.projects.rows) >= Len(sheetProjects)
           /\ Len(sheetProjects) > 0
    /\ (gantt.projects.status # "absent" /\ NoProjectStart /\ NoCustomerRowKept) =>
           /\ Len(gantt.projects.rows) = Len(sheetProjects)
           /\ gantt.projects.headers.firstChartDate
                  = getStartOfWeek(NewDate(getFullYear(today), getMonth(today), 1))
           /\ gantt.projects.headers.lastChartDate
                  = getEndOfWeek(NewDate(getFullYear(today), getMonth(today) + 1, 0), FALSE)
           /\ gantt.projects.headers.totalDataColumns >= 5
           /\ gantt.projects.headers.totalDataColumns % 5 = 0

C18_Witness ==
    /\ NoPeopleRowKept
    /\ NoCustomerRowKept
    /\ NoProjectStart
    /\ gantt.people.status = "cleared"
    /\ gantt.projects.status = "drawn"
    /\ Len(gantt.projects.rows) = 1

---------------------------------------------------------------------------
(* Claims about the order of the rows, checked under SpecRows. *)

\* The groups of the people timeline in the order claimed: the customers,
\* then the people by name.
GroupsInOrder == << "customer" >> \o PersonNames

GroupRank(group) == CHOOSE i \in 1..Len(GroupsInOrder) : GroupsInOrder[i] = group

\* The intervals drawn for a group, in the order of their sheet rows of the
\* source, which is the order the packer received them in.
RECURSIVE SortBySrc(_)
SortBySrc(bars) ==
    IF bars = {} THEN << >>
    ELSE LET first == CHOOSE b \in bars : \A c \in bars : b.src <= c.src
         IN  << first >> \o SortBySrc(bars \ {first})

GroupIntervals(t, group) == SortBySrc({ x.bar : x \in { y \in AllBars(t) : y.group = group } })

SrcsOf(members) == [j \in 1..Len(members) |-> members[j].src]

\* The packing of a group, each packed row as the source rows of its members.
PackingOf(t, group) ==
    LET packed == PackRows(GroupIntervals(t, group))
    IN  [k \in 1..Len(packed) |-> SrcsOf(packed[k])]

\* The rows the timeline has for a group, from top to bottom.
RowsOfGroup(t, group) ==
    LET rows == SelectSeq(gantt[t].rows, LAMBDA row : row.group = group)
    IN  [k \in 1..Len(rows) |-> SrcsOf(rows[k].bars)]

RECURSIVE PackedRowCount(_, _)
PackedRowCount(t, groups) ==
    IF groups = << >> THEN 0
    ELSE Len(PackingOf(t, Head(groups))) + PackedRowCount(t, Tail(groups))

\* The row counter after the last row was written.
FinalRow(t) ==
    IF gantt[t].rows = << >> THEN 3 ELSE gantt[t].rows[Len(gantt[t].rows)].sheetRow + 1

\* C19: the data rows of the people timeline are the packed customer rows,
\* then each person's packed rows, people by ascending name and rows in the
\* order the packer opened them; the rows of a group are consecutive, the
\* sheet rows run from 3 without a gap, and the final row counter is 3 plus
\* the number of packed rows of all groups.
C19_RowsInGroupOrder ==
    gantt.people.status = "drawn" =>
        /\ \A r \in 1..Len(gantt.people.rows) : gantt.people.rows[r].sheetRow = 2 + r
        /\ \A r \in 1..(Len(gantt.people.rows) - 1) :
               GroupRank(gantt.people.rows[r].group) <= GroupRank(gantt.people.rows[r + 1].group)
        /\ \A i \in 1..Len(GroupsInOrder) :
               RowsOfGroup("people", GroupsInOrder[i]) = PackingOf("people", GroupsInOrder[i])
        /\ FinalRow("people") = 3 + PackedRowCount("people", GroupsInOrder)

\* A customer row above two rows of Alice above a row of Bob.
C19_Witness ==
    /\ gantt.people.status = "drawn"
    /\ Len(gantt.people.rows) = 3
    /\ gantt.people.rows[1].group = "customer"
    /\ gantt.people.rows[2].group = "Alice"
    /\ gantt.people.rows[3].group = "Bob"
    /\ gantt.people.rows[3].sheetRow = 5

---------------------------------------------------------------------------
(* The documented example end to end, checked under SpecExample. *)

\* The row of the timeline whose only interval is the one of the given key.
RowOfKey(key, r) ==
    /\ Len(gantt.people.rows[r].bars) = 1
    /\ sheetPeople[gantt.people.rows[r].bars[1].src].key = key

\* The bar of row r covers exactly the columns of the business days from
\* the first to the last day given, and those columns hold these days.
BarSpansDays(r, firstDay, lastDay) ==
    LET bar == gantt.people.rows[r].bars[1]
        map == gantt.people.headers.dailyDateToSheetColMap
    IN  /\ \A day \in firstDay..lastDay : toISODay(day, tz) \in DOMAIN map
        /\ bar.startSheetCol..bar.endSheetCol
               = { map[toISODay(day, tz)] : day \in firstDay..lastDay }
        /\ bar.endSheetCol - bar.startSheetCol = lastDay - firstDay
        /\ bar.startSheetCol - FirstDayCol(gantt.people.headers)
               = firstDay - gantt.people.headers.firstChartDate

\* C20: for A (Alice, 2025-01-06..08), B (Alice, 2025-01-07..10) and
\* C (Bob, 2025-01-06..09) on the work-week index the people timeline has
\* three rows, Alice with A, Alice with B, Bob with C, over the five columns
\* of one week, and the bars span Mon-Wed, Tue-Fri and Mon-Thu.
C20_ExampleLayout ==
    gantt.people.status # "absent" =>
        /\ gantt.people.status = "drawn"
        /\ gantt.people.headers.firstChartDate = NewDate(2025, 0, 6)
        /\ gantt.people.headers.totalDataColumns = 5
        /\ Len(gantt.people.rows) = 3
        /\ [r \in 1..3 |-> gantt.people.rows[r].group] = << "Alice", "Alice", "Bob" >>
        /\ [r \in 1..3 |-> gantt.people.rows[r].label] = << "Alice", "Alice", "Bob" >>
        /\ RowOfKey("A", 1) /\ BarSpansDays(1, NewDate(2025, 0, 6), NewDate(2025, 0, 8))
        /\ RowOfKey("B", 2) /\ BarSpansDays(2, NewDate(2025, 0, 7), NewDate(2025, 0, 10))
        /\ RowOfKey("C", 3) /\ BarSpansDays(3, NewDate(2025, 0, 6), NewDate(2025, 0, 9))

C20_Witness ==
    /\ gantt.people.status = "drawn"
    /\ sheetPeople[1].key = "C"
    /\ sheetPeople[2].key = "B"
    /\ Len(gantt.people.rows) = 3
    /\ tz # 0


----------------------------------------------------------------------------
(* C21 *)

\* What a build draws: the index, the overall dates, the rows with their
\* bars, spans and colours.
LayoutOf(timeline) ==
    [status |-> timeline.status, minDate |-> timeline.minDate,
     maxDate |-> timeline.maxDate, headers |-> timeline.headers,
     rows |-> timeline.rows, skippedPeople |-> timeline.skippedPeople,
     skippedCustomers |-> timeline.skippedCustomers]

FreshBuild(t) == IF t = "people" THEN PeopleTimeline ELSE ProjectTimeline

\* A timeline built on the day the clock shows has the layout that a
\* build of the same sheets on that day produces now, whatever the sheet held
\* before and however many builds came in between.
C21_SameInputsSameLayout ==
    \A t \in Timelines :
        (gantt[t].status # "absent" /\ gantt[t].builtOn = today)
            => LayoutOf(gantt[t]) = LayoutOf(FreshBuild(t))

\* Apart from the hidden columns and the default month of a Projects
\* sheet without a valid start date, the layout is the same on every day.
C21_OnlyTodayReadsTheClock ==
    \A t \in Timelines :
        (gantt[t].status # "absent"
         /\ ~(t = "projects" /\ NoProjectStart))
            => LayoutOf(gantt[t]) = LayoutOf(FreshBuild(t))

----------------------------------------------------------------------------
(* C24 *)

DaysOf(h) == { DayOfKey(k) : k \in DOMAIN h.dailyDateToSheetColMap }

HiddenDays(t) ==
    { d \in DaysOf(gantt[t].headers) :
          gantt[t].headers.dailyDateToSheetColMap[toISODay(d, tz)] \in gantt[t].hidden }

BuiltToday(t) == gantt[t].status = "drawn" /\ gantt[t].builtOn = today

\* The label columns of a timeline: one in the projects timeline, two in the
\* people timeline.
FixedColumns(t) == IF t = "people" THEN 2 ELSE 1

C24_TodayOnAxis ==
    \A t \in Timelines :
        (BuiltToday(t) /\ today \in DaysOf(gantt[t].headers)) =>
            HiddenDays(t) = { d \in DaysOf(gantt[t].headers) : d < today }

C24_TodayOffAxis ==
    \A t \in Timelines :
        (BuiltToday(t) /\ today \notin DaysOf(gantt[t].headers)) =>
            \A d \in HiddenDays(t) : d < today

C24_FunctionOfTodayAndIndex ==
    \A t \in Timelines :
        BuiltToday(t) =>
            gantt[t].hidden = hideColumns(gantt[t].headers, FixedColumns(t), today, tz)

\* C24: after a build, when today has a column exactly the columns of the
\* days before today are hidden; otherwise no column of today or of a later
\* day is hidden; and the hidden columns are those that the index and today
\* determine, whatever the sheet held before.
C24_HiddenOnlyBeforeToday ==
    C24_TodayOnAxis /\ C24_TodayOffAxis /\ C24_FunctionOfTodayAndIndex
----------------------------------------------------------------------------
(* C22 *)

\* The dates of People row i as the row's own cells and the Projects sheet
\* determine them: the cell, else the date of the project key, and an end
\* before the start adjusted.
OwnStartDate(i) ==
    IF IsValid(sheetPeople[i].startDate) THEN sheetPeople[i].startDate
    ELSE ProjectDetail(sheetPeople[i].key).projectStartDate

OwnEndDate(i) ==
    LET endDate == IF IsValid(sheetPeople[i].endDate) THEN sheetPeople[i].endDate
                   ELSE ProjectDetail(sheetPeople[i].key).projectEndDate
    IN  IF endDate < OwnStartDate(i) THEN AdjustEndDate(OwnStartDate(i), endDate)
        ELSE endDate

PeopleBars == { x \in AllBars("people") : x.group # "customer" }

\* C22: every interval drawn for a People row has the dates that its own
\* row and the Projects sheet determine, whatever the other rows are: the
\* adjustment of one row's end date changes no date another row falls back
\* to, and the overall latest date is the latest end date so determined.
C22_DatesOfOtherRowsUnchanged ==
    /\ \A x \in PeopleBars :
          /\ x.bar.startDate = OwnStartDate(x.bar.src)
          /\ x.bar.endDate = OwnEndDate(x.bar.src)
    /\ (gantt.people.status = "drawn" /\ PeopleBars # {}) =>
          \A x \in PeopleBars : OwnEndDate(x.bar.src) <= gantt.people.maxDate
----------------------------------------------------------------------------
(* C23 *)

Packed == UNION { RowOf(packedRows, r) : r \in 1..Len(packedRows) }

PackedRowOf(x) == CHOOSE r \in 1..Len(packedRows) : x \in RowOf(packedRows, r)

\* The place of an interval in the order the packer takes the list in.
TakenAt(x) ==
    LET sorted == SortByStart(personProjects)
    IN  CHOOSE k \in 1..Len(sorted) : sorted[k] = x

\* C23 as stated: two intervals of a group that do not overlap are in the
\* same packed row.
C23_NonOverlappingShareRow ==
    packedBy # "none" =>
        \A x, y \in Packed : ~Overlaps(x, y) /\ x # y => PackedRowOf(x) = PackedRowOf(y)

\* The rows of the intervals of a sorted list, in the order of the list.
RECURSIVE RowsInOrder(_, _)
RowsInOrder(sorted, k) ==
    IF k = 0 THEN << >>
    ELSE Append(RowsInOrder(sorted, k - 1), PackedRowOf(sorted[k]))

LaterJoinsUnlessBlocked(sorted, row) ==
    /\ \A i, j \in 1..Len(sorted) :
          (i < j /\ ~Overlaps(sorted[j], sorted[i])) =>
              \/ row[j] <= row[i]
              \/ \E m \in 1..(j - 1) : row[m] = row[i] /\ Overlaps(sorted[j], sorted[m])
    /\ \A i, j \in 1..Len(sorted) :
          (/\ \A m \in 1..Len(sorted) : m # i => ~Overlaps(sorted[i], sorted[m])
           /\ \A m \in 1..Len(sorted) : m # j => ~Overlaps(sorted[j], sorted[m]))
              => row[i] = row[j]

\* C23 (amended): of two intervals of a group that do not overlap, the one
\* taken later is in the row of the earlier one or in a row above it, unless
\* it overlaps an interval put in that row before it; two intervals that
\* overlap no other interval of the group share the first row.
C23_LaterJoinsUnlessBlocked ==
    packedBy # "none" =>
        With(SortByStart(personProjects), LAMBDA sorted :
        With(RowsInOrder(sorted, Len(sorted)), LAMBDA row :
             LaterJoinsUnlessBlocked(sorted, row)))

\* Three intervals: the first two share the first row, the third overlaps
\* the second only and is alone in the second row, away from the first.
C23_Witness ==
    /\ packedBy # "none"
    /\ Len(personProjects) = 3
    /\ Len(packedRows) = 2
    /\ \E x, z \in RowOf(packedRows, 1), y \in RowOf(packedRows, 2) :
           /\ x # z
           /\ ~Overlaps(y, x)
           /\ Overlaps(y, z)
           /\ TakenAt(x) < TakenAt(z) /\ TakenAt(z) < TakenAt(y)
----------------------------------------------------------------------------
(* C25 *)

\* Input position i is taken before input position j: the earlier start, and
\* for equal starts the earlier position.
TakenBefore(i, j) ==
    \/ personProjects[i].startDate < personProjects[j].startDate
    \/ personProjects[i].startDate = personProjects[j].startDate /\ i < j

\* The k-th interval in ascending start order, equal starts in input order.
Taken(k) ==
    personProjects[CHOOSE i \in 1..Len(personProjects) :
        Cardinality({ j \in 1..Len(personProjects) : TakenBefore(j, i) }) = k - 1]

RECURSIVE TakenUpTo(_)
TakenUpTo(k) == IF k = 0 THEN << >> ELSE Append(TakenUpTo(k - 1), Taken(k))

\* The rows of first fit for the intervals in the order taken: each gets the
\* lowest row none of whose earlier members it overlaps, else the row after
\* the rows in use.
RECURSIVE FirstFitRows(_, _)
FirstFitRows(taken, row) ==
    IF Len(row) = Len(taken) THEN row
    ELSE LET k == Len(row) + 1
             used == { row[j] : j \in 1..Len(row) }
             free == { r \in used :
                         \A j \in 1..Len(row) : row[j] = r => ~Overlaps(taken[k], taken[j]) }
         IN  FirstFitRows(taken,
                          Append(row, IF free # {} THEN CHOOSE r \in free : \A q \in free : r <= q
                                      ELSE Cardinality(used) + 1))

RECURSIVE InOrder(_, _, _, _)
InOrder(taken, row, r, n) ==
    IF n = 0 THEN << >>
    ELSE IF row[n] = r THEN Append(InOrder(taken, row, r, n - 1), taken[n])
         ELSE InOrder(taken, row, r, n - 1)

FirstFit(taken, row) ==
    [r \in 1..Cardinality({ row[k] : k \in 1..Len(row) }) |-> InOrder(taken, row, r, Len(row))]

OverlapsInEveryRowBefore(taken, row) ==
    \A k \in 1..Len(taken) : \A q \in 1..(row[k] - 1) :
        \E m \in 1..(k - 1) : row[m] = q /\ Overlaps(taken[k], taken[m])

\* C25: the packed rows are those of first fit over the list in ascending
\* start order with equal starts in input order, and every interval of a row
\* after the first overlaps, in each row before its own, an interval that
\* was placed before it.
C25_EqualsFirstFit ==
    packedBy # "none" =>
        With(TakenUpTo(Len(personProjects)), LAMBDA taken :
        With(FirstFitRows(taken, << >>), LAMBDA row :
             /\ packedRows = FirstFit(taken, row)
             /\ OverlapsInEveryRowBefore(taken, row)))

\* Three intervals with two equal starts packed into three rows.
C25_Witness ==
    /\ packedBy # "none"
    /\ Len(packedRows) = 3
    /\ \E i, j \in 1..Len(personProjects) :
           i < j /\ personProjects[i].startDate = personProjects[j].startDate
----------------------------------------------------------------------------
(* C27 *)

\* The places of the packed rows that hold the interval of input position i.
PlacesOf(i) ==
    { <<r, j>> \in (1..Len(packedRows)) \X (1..Len(personProjects)) :
          j <= Len(packedRows[r]) /\ packedRows[r][j] = personProjects[i] }

\* C27: every interval of the list is at exactly one place of the packed
\* rows, the rows hold nothing else, no row is empty and there are at most as
\* many rows as intervals.
C27_NothingLostOrDuplicated ==
    packedBy # "none" =>
        /\ \A i \in 1..Len(personProjects) : Cardinality(PlacesOf(i)) = 1
        /\ \A r \in 1..Len(packedRows) :
               /\ Len(packedRows[r]) >= 1
               /\ \A j \in 1..Len(packedRows[r]) :
                      \E i \in 1..Len(personProjects) : packedRows[r][j] = personProjects[i]
        /\ Len(packedRows) <= Len(personProjects)

\* Three intervals packed into two rows, two of them with the same dates.
C27_Witness ==
    /\ packedBy # "none"
    /\ Len(personProjects) = 3
    /\ Len(packedRows) = 2
    /\ \E i, j \in 1..3 :
           /\ i # j
           /\ personProjects[i].startDate = personProjects[j].startDate
           /\ personProjects[i].endDate = personProjects[j].endDate
----------------------------------------------------------------------------
(* C28 *)

DayColumns(h) == { h.dailyDateToSheetColMap[k] : k \in DOMAIN h.dailyDateToSheetColMap }

WithinDayColumns(h, bar) ==
    /\ FirstDayCol(h) <= bar.startSheetCol
    /\ bar.startSheetCol <= bar.endSheetCol
    /\ bar.endSheetCol <= h.totalHeaderColumns
    /\ bar.startSheetCol..bar.endSheetCol \subseteq DayColumns(h)

C28_PeopleTimelineBars ==
    \A x \in AllBars("people") : WithinDayColumns(gantt.people.headers, x.bar)

C28_ProjectTimelineBars ==
    \A x \in AllBars("projects") : WithinDayColumns(gantt.projects.headers, x.bar)

\* C28: every range merged for an interval, in customer rows, person rows
\* and project rows, starts at or after the first day column, ends at or
\* before the last one, is at least one column wide and covers columns of
\* days only.
C28_BarsWithinDayColumns == C28_PeopleTimelineBars /\ C28_ProjectTimelineBars
----------------------------------------------------------------------------
(* C26 *)

\* The index of the timeline's overall dates with a column for every day
\* of the week.
FullWeekIndex(t) ==
    generateTimelineHeaders(gantt[t].minDate, gantt[t].maxDate, FixedColumns(t), TRUE, tz)
        .dailyDateToSheetColMap

C26_DatesWithinOverallDates ==
    \A t \in Timelines : \A x \in AllBars(t) :
        /\ gantt[t].minDate <= x.bar.startDate /\ x.bar.startDate <= gantt[t].maxDate
        /\ gantt[t].minDate <= x.bar.endDate /\ x.bar.endDate <= gantt[t].maxDate

C26_IndexNotEmpty ==
    \A t \in Timelines :
        gantt[t].status = "drawn" =>
            /\ gantt[t].minDate <= gantt[t].maxDate
            /\ gantt[t].headers.totalDataColumns >= 1

C26_EndpointsHaveFullWeekColumn ==
    \A t \in Timelines : \A x \in AllBars(t) :
        /\ toISODay(x.bar.startDate, tz) \in DOMAIN FullWeekIndex(t)
        /\ toISODay(x.bar.endDate, tz) \in DOMAIN FullWeekIndex(t)

\* C26: the start and the end of every interval drawn lie between the
\* overall earliest and latest date the index is built from, the earliest is
\* not after the latest, the index has a column, and an index of whole
\* seven-day weeks over the same dates has a column for both endpoints.
C26_IntervalsWithinAxis ==
    C26_DatesWithinOverallDates /\ C26_IndexNotEmpty /\ C26_EndpointsHaveFullWeekColumn
----------------------------------------------------------------------------
(* C30 *)

CustomerBars(t) == { x \in AllBars(t) : x.group = "customer" }

\* The timelines a run has written rows or a notice to.
Written(t) == gantt[t].status # "absent"

C30_CustomerRows ==
    \A t \in Timelines : Written(t) =>
        \A i \in 1..Len(sheetCustomers) :
            LET row == sheetCustomers[i]
                drawn == { x \in CustomerBars(t) : x.bar.src = i }
            IN  /\ (~IsValid(row.startDate) /\ ~IsValid(row.endDate)) <=> drawn = {}
                /\ (IsValid(row.startDate) /\ ~IsValid(row.endDate)) =>
                       \A x \in drawn : x.bar.startDate = row.startDate
                                        /\ x.bar.endDate = row.startDate
                /\ (~IsValid(row.startDate) /\ IsValid(row.endDate)) =>
                       \A x \in drawn : x.bar.startDate = row.endDate
                                        /\ x.bar.endDate = row.endDate

C30_PeopleRows ==
    Written("people") =>
        \A i \in 1..Len(sheetPeople) :
            LET row == sheetPeople[i]
                detail == ProjectDetail(row.key)
                drawn == { x \in PeopleBars : x.bar.src = i }
            IN  /\ KeepsPeopleRow(i) <=> drawn # {}
                /\ ~IsValid(row.startDate) =>
                       \A x \in drawn : x.bar.startDate = detail.projectStartDate
                /\ (~IsValid(row.endDate) /\ OwnStartDate(i) <= detail.projectEndDate) =>
                       \A x \in drawn : x.bar.endDate = detail.projectEndDate

C30_TwoValidDates ==
    \A t \in Timelines : \A x \in CustomerBars(t) \cup PeopleBars :
        IsValid(x.bar.startDate) /\ IsValid(x.bar.endDate)

\* C30: a Customers row with one parseable date is drawn as the interval of
\* that one day and left out only when it has no parseable date; a People
\* row without a parseable date is drawn with the date of its project key
\* in the Projects sheet and left out only when that is missing too; every
\* interval drawn for them has two valid dates.
C30_MissingDatesFilledIn == C30_CustomerRows /\ C30_PeopleRows /\ C30_TwoValidDates
----------------------------------------------------------------------------
(* C29 *)

\* The term of a day by its month alone: T1 Feb-Apr, T2 May-Jul, T3 Aug-Oct,
\* T4 Nov-Jan, January counted to the T4 of the year before.
MonthRuleName(month) ==
    IF month \in {1, 2, 3} THEN "T1"
    ELSE IF month \in {4, 5, 6} THEN "T2"
    ELSE IF month \in {7, 8, 9} THEN "T3"
    ELSE "T4"

MonthRuleYear(d) == IF getMonth(d) = 0 THEN getFullYear(d) - 1 ELSE getFullYear(d)

MonthRuleText(d) == MonthRuleName(getMonth(d)) \o " " \o YearText(MonthRuleYear(d))

\* The days from 2025-01-01 to 2026-10-31.
CalendarDays == NewDate(2025, 0, 1)..NewDate(2026, 9, 31)

C29_EveryDayHasItsMonthsTerm ==
    \A d \in CalendarDays :
        /\ getTermForDate(d) # Null
        /\ getTermForDate(d).name = MonthRuleName(getMonth(d))
        /\ getTermForDate(d).year = MonthRuleYear(d)

C29_EveryColumnHasItsMonthsTerm ==
    headerInfo.built =>
        \A col \in DataColumns :
            ResolvedTerm(col).key = [text |-> MonthRuleText(DayOfKey(KeyOfColumn(col)))]

C29_OneSegmentPerTerm ==
    headerInfo.built =>
        \A c1, c2 \in DataColumns :
            MonthRuleText(DayOfKey(KeyOfColumn(c1))) = MonthRuleText(DayOfKey(KeyOfColumn(c2)))
                => /\ TermSegmentsAt(c1) = TermSegmentsAt(c2)
                   /\ Cardinality(TermSegmentsAt(c1)) = 1

\* C29: under the month rule every day resolves to the term of its month,
\* January to the T4 of the year before, never to none; so does the day of
\* every column of the index, and the columns of one term, those of a T4 on
\* both sides of the new year included, lie in one segment of the term row.
C29_MonthAloneDecidesTerm ==
    /\ C29_EveryDayHasItsMonthsTerm
    /\ C29_EveryColumnHasItsMonthsTerm
    /\ C29_OneSegmentPerTerm
====
